---- MODULE Spec2Model ----
(***************************************************************************)
(* Model of the meilisearch-embedder-proxy ("Meep") embedding cache:       *)
(*   - internal/hash      : text normalisation and fingerprinting          *)
(*   - internal/database  : the embedding_cache table and its operations   *)
(*   - internal/openai    : the provider client and its retry loop         *)
(*   - internal/cache     : the single and batch request orchestration     *)
(*   - internal/tracker   : the asynchronous usage tracker                 *)
(*                                                                         *)
(* Texts, model names and JSON texts are sequences of one-character        *)
(* tokens ("a", " ", "LF", "CR", "TAB", "NUL", "|", ...), so that the       *)
(* string operations of the code are computed, not assumed.                *)
(***************************************************************************)
EXTENDS Integers, Sequences, FiniteSets, TLC

Nil == "nil"

(***************************************************************************)
(* Bounds of the model.                                                    *)
(***************************************************************************)
\* longest batch a request carries
MaxBatch == 3
\* cfg.OpenAI.MaxRetries (a configuration value; the default is 3)
MaxRetries == 1
\* cap(usageChan): 1000 in the code, scaled down so that "full" is reached
ChanCap == 2
\* cfg.Tracker.BatchSize (a configuration value; the default is 50)
BatchSize == 2
\* number of TrackUsage calls one behaviour of the tracker makes
MaxTracked == 3
\* the last reading of the database clock (NOW()) in a behaviour of the store
MaxClock == 1
\* length of the texts the fingerprints are compared on
MaxTextLen == 3
\* length of the vectors stored and read back
MaxDim == 2

(***************************************************************************)
(* Program constants.                                                      *)
(***************************************************************************)
\* hash.go:47  truncation of the normalised text
MaxHashInputLen == 10000
\* cache.go ValidateRequest / processBatchRequest / CreateBatchEmbeddings
MaxBatchItems == 1000
\* cache.go ValidateRequest
MaxItemLen == 10000

(***************************************************************************)
(* Generic sequence helpers (Go's strings package on token sequences).     *)
(***************************************************************************)
Range(s) == {s[i] : i \in 1..Len(s)}

\* unicode.IsSpace on the token alphabet
IsSpace(c) == c \in {" ", "TAB", "LF", "CR", "VT", "FF"}

\* unicode.IsControl on the token alphabet
IsControl(c) == c \in {"TAB", "LF", "CR", "VT", "FF", "NUL"}

RECURSIVE TrimLeft(_)
TrimLeft(s) == IF s # <<>> /\ IsSpace(Head(s)) THEN TrimLeft(Tail(s)) ELSE s

RECURSIVE TrimRight(_)
TrimRight(s) ==
    IF s # <<>> /\ IsSpace(s[Len(s)]) THEN TrimRight(SubSeq(s, 1, Len(s) - 1)) ELSE s

\* strings.TrimSpace
TrimSpace(s) == TrimRight(TrimLeft(s))

RECURSIVE SplitOn(_, _)
\* strings.Split(s, sep) for a one-token separator: always at least one part
SplitOn(s, sep) ==
    IF \A i \in 1..Len(s) : s[i] # sep THEN <<s>>
    ELSE LET k == CHOOSE i \in 1..Len(s) :
                     s[i] = sep /\ \A j \in 1..(i - 1) : s[j] # sep
         IN  <<SubSeq(s, 1, k - 1)>> \o SplitOn(SubSeq(s, k + 1, Len(s)), sep)

RECURSIVE JoinWith(_, _)
\* strings.Join(parts, sep) for a token sequence sep
JoinWith(parts, sep) ==
    IF parts = <<>> THEN <<>>
    ELSE IF Len(parts) = 1 THEN parts[1]
    ELSE parts[1] \o sep \o JoinWith(Tail(parts), sep)

(***************************************************************************)
(* internal/hash: the Fingerprinter.                                       *)
(***************************************************************************)
\* the runes normalizeUnicode writes: all but the control characters other than
\* tab, newline, carriage return
KeptRune(c) == ~(IsControl(c) /\ c \notin {"TAB", "LF", "CR"})

\* drops control characters except tab, newline, carriage return
normalizeUnicode(input) == SelectSeq(input, KeptRune)

\* strings.ReplaceAll(input, "\r\n", "\n"): the "\r" of every "\r\n" goes
ReplaceCRLFPairs(s) ==
    LET marked == [i \in 1..Len(s) |->
                      IF s[i] = "CR" /\ i < Len(s) /\ s[i + 1] = "LF" THEN "" ELSE s[i]]
        Written(c) == c # ""
    IN  SelectSeq(marked, Written)

\* only strings.ReplaceAll(input, "\r\n", "\n"): a lone "\r" stays
ReplaceCRLFOnly(s) == ReplaceCRLFPairs(s)

\* strings.ReplaceAll(input, "\r\n", "\n") then strings.ReplaceAll(input, "\r", "\n")
ReplaceCRLF(s) ==
    LET pairsDone == ReplaceCRLFPairs(s)
    IN  [i \in 1..Len(pairsDone) |-> IF pairsDone[i] = "CR" THEN "LF" ELSE pairsDone[i]]

RECURSIVE TrimmedNonEmpty(_)
\* the loop of normalizeWhitespace: trim every line, keep the non-empty ones
TrimmedNonEmpty(lines) ==
    IF lines = <<>> THEN <<>>
    ELSE LET trimmed == TrimSpace(Head(lines))
         IN  IF trimmed # <<>> THEN <<trimmed>> \o TrimmedNonEmpty(Tail(lines))
             ELSE TrimmedNonEmpty(Tail(lines))

normalizeWhitespace(input) ==
    JoinWith(TrimmedNonEmpty(SplitOn(ReplaceCRLF(input), "LF")), <<" ">>)

normalizeInput(input) ==
    LET n == normalizeWhitespace(normalizeUnicode(TrimSpace(input)))
    IN  IF Len(n) > MaxHashInputLen THEN SubSeq(n, 1, MaxHashInputLen) ELSE n

\* fmt.Sprintf("%s|%s", normalizedInput, modelName); SHA-256 is modelled as an
\* injective function of this pre-hash string, so the fingerprint is the
\* pre-hash string itself.
GenerateInputHash(inputText, modelName) ==
    normalizeInput(inputText) \o <<"|">> \o modelName

(***************************************************************************)
(* internal/database: the embedding_cache table.                           *)
(* A row is [id, input_hash, input_text, embedding_vector, model_name,     *)
(* input_length]; embedding_vector is the JSONB column's text.  The store  *)
(* is the set of rows; input_hash is UNIQUE.                               *)
(***************************************************************************)
\* A float64 is its sign and its shortest decimal digits d with the decimal
\* point after the first dp of them (strconv's decimal): the value is
\* 0.d[1]d[2]... * 10^dp.  Zero has no digits; it keeps its sign.
Float(neg, d, dp) == [neg |-> neg, d |-> d, dp |-> dp]

\* the float64 values the vectors of the requests hold: 1 and 2
Floats == {Float(FALSE, <<1>>, 1), Float(FALSE, <<2>>, 1)}

\* the zero value of float64
ZeroFloat == Float(FALSE, <<>>, 0)

DigitChars == <<"0", "1", "2", "3", "4", "5", "6", "7", "8", "9">>

DigitChar(n) == DigitChars[n + 1]

IsDigit(c) == c \in Range(DigitChars)

DigitVal(c) == CHOOSE n \in 0..9 : DigitChars[n + 1] = c

\* the characters of the digits ds
DigitString(ds) == [i \in 1..Len(ds) |-> DigitChar(ds[i])]

RECURSIVE IntString(_)
\* the decimal digits of n >= 0
IntString(n) == IF n < 10 THEN <<DigitChar(n)>> ELSE IntString(n \div 10) \o <<DigitChar(n % 10)>>

\* strconv's %e of the shortest digits: d.ddde+XX, the exponent of two digits
\* at least
FmtE(x) ==
    LET nd  == Len(x.d)
        exp == IF nd = 0 THEN 0 ELSE x.dp - 1
        abs == IF exp < 0 THEN 0 - exp ELSE exp
    IN  (IF x.neg THEN <<"-">> ELSE <<>>)
        \o (IF nd = 0 THEN <<"0">> ELSE <<DigitChar(x.d[1])>>)
        \o (IF nd > 1 THEN <<".">> \o DigitString(SubSeq(x.d, 2, nd)) ELSE <<>>)
        \o <<"e", IF exp < 0 THEN "-" ELSE "+">>
        \o (IF abs < 10 THEN <<"0">> ELSE <<>>) \o IntString(abs)

\* strconv's %f of the shortest digits: the integer part, then the point and
\* max(nd - dp, 0) digits
FmtF(x) ==
    LET nd   == Len(x.d)
        prec == IF nd - x.dp > 0 THEN nd - x.dp ELSE 0
    IN  (IF x.neg THEN <<"-">> ELSE <<>>)
        \o (IF x.dp > 0
            THEN [i \in 1..x.dp |-> IF i <= nd THEN DigitChar(x.d[i]) ELSE "0"]
            ELSE <<"0">>)
        \o (IF prec > 0
            THEN <<".">> \o [i \in 1..prec |->
                               IF x.dp + i >= 1 /\ x.dp + i <= nd
                               THEN DigitChar(x.d[x.dp + i]) ELSE "0"]
            ELSE <<>>)

\* fmt.Sprint of one float64: %v is strconv's 'g' with the shortest digits, %e
\* when the exponent is below -4 or at least 6 (the decimal point moved by 21
\* places is encoding/json's rule, not fmt's)
FormatFloat(x) ==
    IF x.dp - 1 < -4 \/ x.dp - 1 >= 6 THEN FmtE(x) ELSE FmtF(x)

RECURSIVE DigitRun(_, _)
\* how many digits s has from its i-th character on
DigitRun(s, i) == IF i <= Len(s) /\ IsDigit(s[i]) THEN 1 + DigitRun(s, i + 1) ELSE 0

RECURSIVE DigitsValue(_)
\* the number the digit characters s write
DigitsValue(s) ==
    IF s = <<>> THEN 0 ELSE 10 * DigitsValue(SubSeq(s, 1, Len(s) - 1)) + DigitVal(s[Len(s)])

\* the number read from s: a sign of a characters, n digits, a point (dot is 1)
\* and f digits, an exponent mark (mark is 1) with a sign of es characters and
\* ed digits.  [ok, neg, int, frac, exp]: the digits before and after the point
\* and the exponent; ok is FALSE when a digit is missing.
NumberRead(s, a, n, dot, f, mark, es, ed) ==
    LET m == a + n + dot + f + mark + es
    IN  [ok   |-> n + f > 0 /\ (mark = 1 => ed > 0),
         neg  |-> a = 1 /\ s[1] = "-",
         int  |-> SubSeq(s, a + 1, a + n),
         frac |-> SubSeq(s, a + n + dot + 1, a + n + dot + f),
         exp  |-> IF ed = 0 THEN 0
                  ELSE IF es = 1 /\ s[m] = "-" THEN 0 - DigitsValue(SubSeq(s, m + 1, m + ed))
                  ELSE DigitsValue(SubSeq(s, m + 1, m + ed))]

\* after the mantissa: "e" or "E", a sign, digits
ReadExponent(s, a, n, dot, f) ==
    LET m == a + n + dot + f
    IN  IF m + 1 <= Len(s) /\ s[m + 1] \in {"e", "E"}
        THEN IF m + 2 <= Len(s) /\ s[m + 2] \in {"+", "-"}
             THEN NumberRead(s, a, n, dot, f, 1, 1, DigitRun(s, m + 3))
             ELSE NumberRead(s, a, n, dot, f, 1, 0, DigitRun(s, m + 2))
        ELSE NumberRead(s, a, n, dot, f, 0, 0, 0)

\* a read that stops at the point, as of an integer
ReadFractionNone(s, a, n) == ReadExponent(s, a, n, 0, 0)

\* after the digits before the point: "." and digits
ReadFraction(s, a, n) ==
    IF a + n + 1 <= Len(s) /\ s[a + n + 1] = "."
    THEN ReadExponent(s, a, n, 1, DigitRun(s, a + n + 2))
    ELSE ReadExponent(s, a, n, 0, 0)

\* after the sign: digits
ReadDigits(s, a) == ReadFraction(s, a, DigitRun(s, a + 1))

\* A decimal number read from the front of s: sign, digits, "." digits,
\* "e" sign digits
ReadNumber(s) == ReadDigits(s, IF s # <<>> /\ s[1] \in {"+", "-"} THEN 1 ELSE 0)

RECURSIVE StripLeadingZeros(_)
StripLeadingZeros(s) ==
    IF s # <<>> /\ Head(s) = "0" THEN StripLeadingZeros(Tail(s)) ELSE s

RECURSIVE StripTrailingZeros(_)
StripTrailingZeros(s) ==
    IF s # <<>> /\ s[Len(s)] = "0" THEN StripTrailingZeros(SubSeq(s, 1, Len(s) - 1)) ELSE s

\* strconv.ParseFloat of a number read: the float64 with these digits (every
\* number of the model has few digits, so it is a float64's shortest form)
FloatOfNumber(num) ==
    LET all     == num.int \o num.frac
        lead    == StripLeadingZeros(all)
        digits  == StripTrailingZeros(lead)
        point   == Len(num.int) + num.exp - (Len(all) - Len(lead))
    IN  IF digits = <<>> THEN Float(num.neg, <<>>, 0)
        ELSE Float(num.neg, [i \in 1..Len(digits) |-> DigitVal(digits[i])], point)

\* fmt.Sscanf(part, "%f", &val): [err, val]; the verb reads the number at the
\* front of part and fails when there is none
ScanFloat(part) ==
    LET num == ReadNumber(part)
    IN  IF num.ok THEN [err |-> Nil, val |-> FloatOfNumber(num)]
        ELSE [err |-> "failed to parse float value", val |-> ZeroFloat]

\* numeric_out of the number read: no exponent, as many digits after the point
\* as the text had (less the exponent), no sign when it is zero
NumericOut(num) ==
    LET all    == num.int \o num.frac
        point  == Len(num.int) + num.exp
        whole  == StripLeadingZeros(SubSeq(all, 1, IF point < Len(all) THEN point ELSE Len(all)))
    IN  (IF num.neg /\ StripLeadingZeros(all) # <<>> THEN <<"-">> ELSE <<>>)
        \o (IF whole # <<>> THEN whole \o [i \in 1..(point - Len(all)) |-> "0"]
            ELSE <<"0">>)
        \o (IF Len(all) - point > 0
            THEN <<".">> \o [i \in 1..(Len(all) - point) |->
                               IF point + i >= 1 THEN all[point + i] ELSE "0"]
            ELSE <<>>)

\* A JSON number as the JSONB column keeps and prints it: a PostgreSQL numeric
JsonbNumber(text) == NumericOut(ReadNumber(text))

RECURSIVE SprintElems(_)
\* the elements of fmt.Sprint(vector), separated by single spaces
SprintElems(vector) ==
    IF vector = <<>> THEN <<>>
    ELSE IF Len(vector) = 1 THEN FormatFloat(vector[1])
    ELSE FormatFloat(vector[1]) \o <<" ">> \o SprintElems(Tail(vector))

RECURSIVE TrimCutsetLeft(_, _)
TrimCutsetLeft(s, cutset) ==
    IF s # <<>> /\ Head(s) \in cutset THEN TrimCutsetLeft(Tail(s), cutset) ELSE s

RECURSIVE TrimCutsetRight(_, _)
TrimCutsetRight(s, cutset) ==
    IF s # <<>> /\ s[Len(s)] \in cutset
    THEN TrimCutsetRight(SubSeq(s, 1, Len(s) - 1), cutset) ELSE s

\* "[" + strings.Trim(strings.Replace(fmt.Sprint(vector), " ", ",", -1), "[]") + "]"
serializeEmbeddingVector(vector) ==
    LET sprint   == <<"[">> \o SprintElems(vector) \o <<"]">>
        replaced == [i \in 1..Len(sprint) |-> IF sprint[i] = " " THEN "," ELSE sprint[i]]
        trimmed  == TrimCutsetRight(TrimCutsetLeft(replaced, {"[", "]"}), {"[", "]"})
    IN  <<"[">> \o trimmed \o <<"]">>

\* The JSONB column: PostgreSQL parses the JSON text on input and prints its
\* own rendering on output, an array as "[e1, e2, ...]".
JsonbColumn(jsonText) ==
    LET inner == SubSeq(jsonText, 2, Len(jsonText) - 1)
        elems == IF inner = <<>> THEN <<>> ELSE SplitOn(inner, ",")
    IN  <<"[">> \o JoinWith([i \in 1..Len(elems) |-> JsonbNumber(TrimSpace(elems[i]))],
                             <<",", " ">>)
               \o <<"]">>

RECURSIVE ParseParts(_)
\* the loop of parseEmbeddingVector over the split parts: [err, vector]
ParseParts(parts) ==
    IF parts = <<>> THEN [err |-> Nil, vector |-> <<>>]
    ELSE LET part == TrimSpace(Head(parts))
             rest == ParseParts(Tail(parts))
             scan == ScanFloat(part)
         IN  IF part = <<>>
             THEN [err |-> rest.err, vector |-> <<ZeroFloat>> \o rest.vector]
             ELSE IF scan.err # Nil
                  THEN [err |-> scan.err, vector |-> <<>>]
                  ELSE [err |-> rest.err, vector |-> <<scan.val>> \o rest.vector]

\* parseEmbeddingVector: [err, vector]; the vector stays nil (<<>>) on the
\* early returns
parseEmbeddingVector(jsonStr) ==
    LET t == TrimSpace(jsonStr)
    IN  IF Len(t) = 0 THEN [err |-> Nil, vector |-> <<>>]
        ELSE IF t[1] # "[" \/ t[Len(t)] # "]"
             THEN [err |-> "invalid JSON array format", vector |-> <<>>]
        ELSE LET inner == SubSeq(t, 2, Len(t) - 1)
             IN  IF Len(inner) = 0 THEN [err |-> Nil, vector |-> <<>>]
                 ELSE ParseParts(SplitOn(inner, ","))

\* id UUID PRIMARY KEY DEFAULT uuid_generate_v4(): one fresh id per inserted
\* row; rows are never deleted, so the id is a token unique to the row's key
NewUUID(inputHash) == <<"uuid">> \o inputHash

HasRow(st, inputHash) == \E r \in st : r.input_hash = inputHash

RowOf(st, inputHash) == CHOOSE r \in st : r.input_hash = inputHash

\* an INSERT without its ON CONFLICT clause and without the UNIQUE constraint
StoreEmbeddingInsertOnly(st, inputHash, inputText, modelName, embeddingVector) ==
    st \cup {[id               |-> NewUUID(inputHash),
              input_hash       |-> inputHash,
              input_text       |-> inputText,
              embedding_vector |-> JsonbColumn(serializeEmbeddingVector(embeddingVector)),
              model_name       |-> modelName,
              input_length     |-> Len(inputText)]}

\* an upsert whose DO UPDATE sets every column of the row in conflict
StoreEmbeddingReplacesRow(st, inputHash, inputText, modelName, embeddingVector) ==
    {r \in st : r.input_hash # inputHash} \cup
    {[id               |-> NewUUID(inputHash),
      input_hash       |-> inputHash,
      input_text       |-> inputText,
      embedding_vector |-> JsonbColumn(serializeEmbeddingVector(embeddingVector)),
      model_name       |-> modelName,
      input_length     |-> Len(inputText)]}

\* INSERT ... ON CONFLICT (input_hash) DO UPDATE SET embedding_vector = EXCLUDED...
\* the store after a successful StoreEmbedding
StoreEmbedding(st, inputHash, inputText, modelName, embeddingVector) ==
    LET embeddingJSON == JsonbColumn(serializeEmbeddingVector(embeddingVector))
    IN  IF HasRow(st, inputHash)
        THEN (st \ {RowOf(st, inputHash)}) \cup
             {[RowOf(st, inputHash) EXCEPT !.embedding_vector = embeddingJSON]}
        ELSE st \cup {[id               |-> NewUUID(inputHash),
                       input_hash       |-> inputHash,
                       input_text       |-> inputText,
                       embedding_vector |-> embeddingJSON,
                       model_name       |-> modelName,
                       input_length     |-> Len(inputText)]}

\* rows.Scan + parseEmbeddingVector of one row: [err, cached]; a pointer that may
\* be nil is a sequence of length 0 or 1
ScanRow(r) ==
    LET parsed == parseEmbeddingVector(r.embedding_vector)
    IN  IF parsed.err # Nil
        THEN [err |-> "failed to parse embedding vector", cached |-> <<>>]
        ELSE [err |-> Nil,
              cached |-> <<[ID              |-> r.id,
                            InputHash       |-> r.input_hash,
                            InputText       |-> r.input_text,
                            EmbeddingVector |-> parsed.vector,
                            ModelName       |-> r.model_name,
                            InputLength     |-> r.input_length]>>]

\* db.pool.QueryRow(...).Scan(...): the pgx pool reports an empty result as
\* pgx.ErrNoRows
QueryRowScan(st, inputHash, dbUp) ==
    IF ~dbUp THEN "connection error"
    ELSE IF ~HasRow(st, inputHash) THEN "pgx.ErrNoRows"
    ELSE Nil

\* GetCachedEmbedding: [err, cached]; the "no rows" test compares the error
\* with database/sql's sql.ErrNoRows
GetCachedEmbedding(st, inputHash, dbUp) ==
    LET err == QueryRowScan(st, inputHash, dbUp)
    IN  IF err # Nil
        THEN IF err = "sql.ErrNoRows"
             THEN [err |-> Nil, cached |-> <<>>]
             ELSE [err |-> "failed to query cached embedding", cached |-> <<>>]
        ELSE ScanRow(RowOf(st, inputHash))

\* hashToItem after the first loop of GetBatchCachedEmbeddings: a hash maps
\* to the last item that carries it
HashToItem(batchItems, h) ==
    CHOOSE i \in 1..Len(batchItems) :
        /\ batchItems[i].Hash = h
        /\ \A j \in (i + 1)..Len(batchItems) : batchItems[j].Hash # h

\* a batch lookup that reports no error and no hit whatever the store answers
GetBatchCachedEmbeddingsUnchecked(st, batchItems, dbUp) ==
    [err |-> Nil, items |-> batchItems]

\* GetBatchCachedEmbeddings: [err, items]
GetBatchCachedEmbeddings(st, batchItems, dbUp) ==
    IF Len(batchItems) = 0 THEN [err |-> Nil, items |-> batchItems]
    ELSE IF ~dbUp
         THEN [err |-> "failed to query batch cached embeddings", items |-> <<>>]
    ELSE LET hashes == {batchItems[i].Hash : i \in 1..Len(batchItems)}
             rows   == {r \in st : r.input_hash \in hashes}
         IN  IF \E r \in rows : ScanRow(r).err # Nil
             THEN [err |-> "failed to parse embedding vector", items |-> <<>>]
             ELSE [err |-> Nil,
                   items |-> [i \in 1..Len(batchItems) |->
                       IF /\ HasRow(st, batchItems[i].Hash)
                          /\ HashToItem(batchItems, batchItems[i].Hash) = i
                       THEN [batchItems[i] EXCEPT
                                !.Cached = ScanRow(RowOf(st, batchItems[i].Hash)).cached]
                       ELSE batchItems[i]]]

RECURSIVE SumInputLength(_)
\* SUM(input_length) over the rows
SumInputLength(rows) ==
    IF rows = {} THEN 0
    ELSE LET r == CHOOSE x \in rows : TRUE
         IN  r.input_length + SumInputLength(rows \ {r})

\* the one row SELECT COUNT(*), COUNT(DISTINCT model_name), AVG(input_length)
\* returns: AVG over no row is NULL (<<>>), else the quotient
StatsRow(st) ==
    [total_entries    |-> Cardinality(st),
     unique_models    |-> Cardinality({r.model_name : r \in st}),
     avg_input_length |-> IF st = {} THEN <<>>
                          ELSE <<[sum |-> SumInputLength(st), count |-> Cardinality(st)]>>]

\* Scan(&totalEntries, &uniqueModels, &avgInputLength) with avgInputLength a
\* float64: a NULL cannot be scanned into it
ScanStatsErr(row) == IF row.avg_input_length = <<>> THEN "cannot scan NULL" ELSE Nil

\* GetCacheStats: [err, stats]; int64(avgInputLength) cuts the fraction off
GetCacheStats(st, dbUp) ==
    IF ~dbUp \/ ScanStatsErr(StatsRow(st)) # Nil
    THEN [err |-> "failed to get cache stats", stats |-> <<>>]
    ELSE LET row == StatsRow(st)
         IN  [err   |-> Nil,
              stats |-> <<[total_entries    |-> row.total_entries,
                           unique_models    |-> row.unique_models,
                           avg_input_length |-> row.avg_input_length[1].sum \div
                                                row.avg_input_length[1].count]>>]

\* Cache.GetStats: the error of GetCacheStats wrapped, or its three numbers
\* under "cache_stats"
CacheGetStats(st, dbUp) ==
    LET got == GetCacheStats(st, dbUp)
    IN  IF got.err # Nil
        THEN [err |-> "failed to get cache stats", cache_stats |-> <<>>]
        ELSE [err |-> Nil, cache_stats |-> got.stats]

(***************************************************************************)
(* State.                                                                  *)
(***************************************************************************)
VARIABLES
    \* ---- the persistent store and one request in flight (internal/cache)
    store,        \* the rows of embedding_cache
    pc,           \* "idle" (no request yet), "lookup", "provider", "store", "done"
    req,          \* the EmbeddingRequest: [type, text, items, Model]
    modelName,    \* the effective model of the request
    batchItems,   \* []*BatchItem: [Input, Hash, Index, Cached]
    tracked,      \* the ids this request passed to tracker.TrackUsage, in order
    resp,         \* what handleEmbed answers
    \* ---- the provider client call of the request (internal/openai)
    aiInputs,     \* the inputs of the CreateBatchEmbeddings call
    attempt,      \* the loop variable of CreateBatchEmbeddings
    lastErr,      \* lastErr of CreateBatchEmbeddings
    ctxDone,      \* the call's context has timed out or was cancelled
    aiResponse,   \* what CreateBatchEmbeddings returned
    \* ---- history of the request, for the properties
    storeAtLookup,\* the rows the store held when the request looked up
    writeFailed,  \* a StoreEmbedding of the request failed
    prevSame,     \* the outcome of the request before, kept while the next
                  \* request is the same single-input request; else empty
    lookupDb,     \* "up" or "down": whether the store answered the lookup (Nil before)
    clientCalls,  \* the input lists of the CreateBatchEmbeddings calls made
    apiCalls,     \* number of provider API calls (attempts) made
    goodAt,       \* the attempt (1-based) whose well-formed answer followed a failure, or 0
    askedModel,   \* the Model of the last Embeddings.New call of the request ("" if none)
    \* ---- the usage tracker (internal/tracker)
    usageChan,    \* the buffered channel's content
    chanClosed,   \* close(ut.usageChan) has run
    stopClosed,   \* close(ut.stopChan) has run
    buffer,       \* ut.buffer
    ingestPc,     \* processUsageUpdates: "select", "flush", "write", "exited"
    timerPc,      \* flushPeriodically: "select", "flush", "write", "exited"
    stopPc,       \* Stop: "running", "closedStop", "waiting", "flush", "write", "stopped"
    inFlight,     \* per flusher, the batch copied out of the buffer (<<>> if none)
    markUsed,     \* the batches passed to updateUsageTimestamps, in order
    accepted,     \* the ids TrackUsage put into the channel
    acceptedAtStop,\* the ids accepted when Stop was called
    dropped,      \* the ids TrackUsage dropped, each with the channel length it saw
    panicked,     \* a TrackUsage call panicked (send on closed channel)
    nTracked,     \* number of TrackUsage calls made
    ticks,        \* ticker.C has fired "none", "one" or "many" times
    trackedAtTick,\* number of TrackUsage calls made when ticker.C first fired
    failedWrites, \* the batches whose updateUsageTimestamps returned an error
    \* ---- one call of the provider client (internal/openai)
    waited,       \* the time the call has spent in backoff waits, in seconds
    attemptAt,    \* per API call made: the value of waited when it started
    directCall,   \* a call made on the client itself: <<[kind, inputs]>>, or <<>>
    \* ---- the Database called directly (internal/database)
    dTable,       \* the rows of embedding_cache
    dStamps,      \* input_hash -> [created_at, updated_at, used_at]
    dClock,       \* the time, NOW()
    dStored,      \* input_hash -> the vector the last successful StoreEmbedding passed
    dOp,          \* the last call and what it returned
    \* ---- two fingerprint computations side by side (internal/hash)
    fpA,          \* the first [text, model]
    fpB,          \* the second [text, model]
    fpHow,        \* how the second was got from the first: "none" (the same),
                  \* "edits" (whitespace and line-ending edits), "model" (another
                  \* model), "free" (any text and model)
    \* ---- the table with its timestamp columns under concurrent requests
    sTable,       \* the rows of embedding_cache (without the timestamp columns)
    sStamps,      \* per input_hash of a row: [created_at, updated_at, used_at]
    sClock,       \* the database clock
    hPc,          \* per handler: "idle", "lookup", "provider", "begin", "apply", "done"
    hReq,         \* per handler: its EmbeddingRequest
    hItems,       \* per handler: its batchItems
    hAi,          \* per handler: the vectors the provider call returned
    hK,           \* per handler: the miss item its write-through is at
    hNow,         \* per handler: NOW() of its statement in progress
    hResp,        \* per handler: its answer
    uPending,     \* the ids handed to TrackUsage and not yet flushed
    uPc,          \* the flush's UPDATE: "idle", "apply"
    uNow,         \* NOW() of the flush's UPDATE in progress
    uBatch,       \* the ids of the flush's UPDATE in progress
    \* ---- history of the concurrent requests, for the properties
    hAbsent,      \* per handler: its lookup found the store without its first fingerprint
    hCalled,      \* per handler: it called the provider
    hWrote,       \* per handler: number of upserts it applied
    hOverlapped,  \* per handler: another statement wrote the row of its statement in progress
    sLastUpsert   \* the upsert applied last: <<[handler, hash, vector, prior, overlapped]>>,
                  \* with the vector it replaced in prior, or <<>>

\* the variables of one call of the provider client
cliVars == <<waited, attemptAt, directCall>>

reqVars == <<store, pc, req, modelName, batchItems, tracked, resp, aiInputs, attempt,
             lastErr, ctxDone, aiResponse, storeAtLookup, writeFailed, prevSame, lookupDb,
             clientCalls,
             apiCalls, goodAt, askedModel, cliVars>>

trkVars == <<usageChan, chanClosed, stopClosed, buffer, ingestPc, timerPc, stopPc,
             inFlight, markUsed, accepted, acceptedAtStop, dropped, panicked,
             nTracked, ticks, trackedAtTick, failedWrites>>

raceVars == <<sTable, sStamps, sClock, hPc, hReq, hItems, hAi, hK, hNow, hResp, uPending,
              uPc, uNow, uBatch, hAbsent, hCalled, hWrote, hOverlapped, sLastUpsert>>

fpVars == <<fpA, fpB, fpHow>>

dbVars == <<dTable, dStamps, dClock, dStored, dOp>>

vars == <<reqVars, trkVars, raceVars, fpVars, dbVars>>

(***************************************************************************)
(* internal/openai: the provider client.                                   *)
(***************************************************************************)
\* c.model, as main passes cfg.OpenAI.Model
DefaultModel == <<"m">>

\* the vectors the provider returns in the model
Vectors == {<<x>> : x \in Floats}

\* an error value of the client: message, attempt count, wrapped cause and the
\* index the cause names
ClientErr(msg, n, cause, index) == [msg |-> msg, n |-> n, cause |-> cause, index |-> index]

NoErr == ClientErr(Nil, 0, Nil, 0)

\* the TokenUsage of a response: prompt_tokens and total_tokens
Usage(promptTokens, totalTokens) ==
    [PromptTokens |-> promptTokens, TotalTokens |-> totalTokens]

\* the zero value of TokenUsage
ZeroUsage == Usage(0, 0)

\* the response.Usage values the provider reports in the model
ProviderUsages == {Usage(5, 5)}

\* what one c.client.Embeddings.New call can answer for n inputs: an error, or
\* Data of any length up to n whose vectors may be empty, with its Usage
APIOutcomes(n) ==
    {[err |-> TRUE, Data |-> <<>>, Usage |-> ZeroUsage]} \cup
    {[err |-> FALSE, Data |-> d, Usage |-> u] :
        d \in UNION {[1..k -> Vectors \cup {<<>>}] : k \in 0..n}, u \in ProviderUsages}

\* "if response.Usage.PromptTokens > 0" copies the usage into the response
TokenUsageOf(usage) == IF usage.PromptTokens > 0 THEN usage ELSE ZeroUsage

WellFormed(outcome) ==
    /\ ~outcome.err
    /\ Len(outcome.Data) > 0
    /\ \A i \in 1..Len(outcome.Data) : Len(outcome.Data[i]) > 0

\* lastErr after the "for i, data := range response.Data" loop: the last
\* empty vector's index (0-based, as the code prints it) sets it
LastErrAfterData(le, data) ==
    IF \E i \in 1..Len(data) : Len(data[i]) = 0
    THEN LET last == CHOOSE i \in 1..Len(data) :
                         Len(data[i]) = 0 /\ \A j \in (i + 1)..Len(data) : Len(data[j]) # 0
         IN  ClientErr("empty embedding vector returned from OpenAI at index", 0, Nil, last - 1)
    ELSE le

\* a retry loop that stops one attempt early: "attempt < c.maxRetries"
LoopStopsEarly(a) == a < MaxRetries

\* the loop's exit test "attempt <= c.maxRetries"
LoopContinues(a) == a <= MaxRetries

\* a linear backoff replaced by a doubling one
BackoffDoubling(a) == 2 * a

\* backoff := time.Duration(attempt) * time.Second, in seconds
Backoff(a) == a

\* a backoff wait that does not look at the context
BackoffIgnoresCtx(done) == "timer"

\* select { case <-ctx.Done(): ... case <-time.After(backoff): }: with the
\* context done the Done case is taken, else the wait runs to its end
BackoffSelect(done) == IF done THEN "ctx" ELSE "timer"

\* a client without the checks of its inputs
ClientEntryErrNone(inputs) == NoErr

\* one iteration of the retry loop of CreateBatchEmbeddings from the API call
\* on: [lastErr, ret], ret holds the response returned, or is empty when the loop continues
AttemptBody(le, outcome) ==
    IF outcome.err
    THEN [lastErr |-> ClientErr("OpenAI API call failed", 0, Nil, 0), ret |-> <<>>]
    ELSE IF Len(outcome.Data) = 0
    THEN [lastErr |-> ClientErr("no embedding data returned from OpenAI", 0, Nil, 0),
          ret |-> <<>>]
    ELSE LET le2 == LastErrAfterData(le, outcome.Data)
         IN  IF le2 # NoErr
             THEN [lastErr |-> le2, ret |-> <<>>]
             ELSE [lastErr |-> le2,
                   ret |-> <<[err |-> NoErr, Embeddings |-> outcome.Data,
                              Model |-> DefaultModel,
                              TokenUsage |-> TokenUsageOf(outcome.Usage)]>>]

\* the return after the loop
ExhaustedErr(le) ==
    [err |-> ClientErr("failed to create batch embeddings after attempts",
                       MaxRetries + 1, le.msg, le.index),
     Embeddings |-> <<>>, Model |-> <<>>, TokenUsage |-> ZeroUsage]

CtxErr ==
    [err |-> ClientErr("context done", 0, Nil, 0), Embeddings |-> <<>>, Model |-> <<>>,
     TokenUsage |-> ZeroUsage]

\* the checks of CreateBatchEmbeddings before the loop: the error, or NoErr
ClientEntryErr(inputs) ==
    IF Len(inputs) = 0 THEN ClientErr("input array cannot be empty", 0, Nil, 0)
    ELSE IF Len(inputs) > MaxBatchItems
         THEN ClientErr("batch size too large (max 1000 items)", 0, Nil, 0)
    ELSE NoErr

(***************************************************************************)
(* internal/cache: the orchestrator.                                       *)
(***************************************************************************)
\* the texts requests carry: "a" and " b" (stored as received, hashed as "b")
ReqTexts == {<<"a">>, <<" ", "b">>}

\* a model name other than the configured one, as a request may give it
OtherModel == <<"n">>

\* a text one byte longer than ValidateRequest allows
OverlongText == [i \in 1..(MaxItemLen + 1) |-> "a"]

\* a batch one item longer than ValidateRequest allows
OversizeBatch == [i \in 1..(MaxBatchItems + 1) |-> <<"a">>]

\* an EmbeddingRequest as ShouldBindJSON leaves it: type is the dynamic type
\* of Input ("string", "array", "other" for a number or an object, "absent" for
\* a missing or null input); nonStringAt is the position of the first array
\* element that is not a string, or 0; Model "" stands for "not given"
Request(type, text, items, nonStringAt, model) ==
    [type |-> type, text |-> text, items |-> items, nonStringAt |-> nonStringAt,
     Model |-> model]

NoRequest == Request(Nil, <<>>, <<>>, 0, <<>>)

\* the EmbeddingRequests of the model: strings (possibly empty) and arrays of
\* strings (possibly empty) for the configured model, "a" and ["a"] for another
\* model, and the requests the validation is there to refuse
Requests ==
    {Request("string", t, <<>>, 0, <<>>) : t \in ReqTexts \cup {<<>>}} \cup
    {Request("array", <<>>, it, 0, <<>>) :
        it \in UNION {[1..k -> ReqTexts] : k \in 0..MaxBatch}} \cup
    {Request("string", <<"a">>, <<>>, 0, OtherModel),
     Request("array", <<>>, <<<<"a">>>>, 0, OtherModel),
     Request("absent", <<>>, <<>>, 0, <<>>),
     Request("other", <<>>, <<>>, 0, <<>>),
     Request("array", <<>>, <<<<"a">>, <<>>>>, 2, <<>>),
     Request("string", OverlongText, <<>>, 0, <<>>),
     Request("array", <<>>, <<<<"a">>, OverlongText>>, 0, <<>>),
     Request("array", <<>>, OversizeBatch, 0, <<>>)}

\* ShouldBindJSON with binding:"required" on Input: the error, or Nil
BindError(r) == IF r.type = "absent" THEN "Invalid request body" ELSE Nil

\* isBatchInput: []interface{} or []string
isBatchInput(input) == input.type = "array"

\* normalizeInput of the cache package, its error: NoErr, or the error with the
\* (0-based) index it names
NormalizeInputErr(input) ==
    IF input.type = "string" THEN NoErr
    ELSE IF input.type = "array"
         THEN IF input.nonStringAt > 0
              THEN ClientErr("batch input item at index is not a string", 0, Nil,
                             input.nonStringAt - 1)
              ELSE NoErr
    ELSE ClientErr("invalid input type: expected string or array of strings", 0, Nil, 0)

\* normalizeInput of the cache package: the []string of the request
InputsOf(input) == IF input.type = "string" THEN <<input.text>> ELSE input.items

\* a ValidateRequest without the check of the number of batch items
ValidateRequestNoBatchLimit(r) ==
    LET inputs == InputsOf(r)
    IN  IF r.type = "absent" THEN ClientErr("input is required", 0, Nil, 0)
        ELSE IF NormalizeInputErr(r) # NoErr THEN NormalizeInputErr(r)
        ELSE IF Len(inputs) = 0 THEN ClientErr("input cannot be empty", 0, Nil, 0)
        ELSE IF \E i \in 1..Len(inputs) : Len(inputs[i]) > MaxItemLen
             THEN ClientErr("input text too long (max 10000 characters)", 0, Nil, 0)
        ELSE NoErr

\* ValidateRequest: the error, or NoErr
ValidateRequest(r) ==
    LET inputs == InputsOf(r)
    IN  IF r.type = "absent" THEN ClientErr("input is required", 0, Nil, 0)
        ELSE IF NormalizeInputErr(r) # NoErr THEN NormalizeInputErr(r)
        ELSE IF Len(inputs) = 0 THEN ClientErr("input cannot be empty", 0, Nil, 0)
        ELSE IF isBatchInput(r)
             THEN IF Len(inputs) > MaxBatchItems
                  THEN ClientErr("batch input too large (max 1000 items)", 0, Nil, 0)
                  ELSE IF \E i \in 1..Len(inputs) : Len(inputs[i]) > MaxItemLen
                       THEN LET first == CHOOSE i \in 1..Len(inputs) :
                                             /\ Len(inputs[i]) > MaxItemLen
                                             /\ \A j \in 1..(i - 1) :
                                                    Len(inputs[j]) <= MaxItemLen
                            IN  ClientErr("batch input item at index too long (max 10000 characters)",
                                          0, Nil, first - 1)
                       ELSE NoErr
        ELSE IF Len(inputs[1]) > MaxItemLen
             THEN ClientErr("input text too long (max 10000 characters)", 0, Nil, 0)
        ELSE NoErr

\* prepareBatchItems; Index is 1-based here (the position in the request)
prepareBatchItems(inputs, model) ==
    [i \in 1..Len(inputs) |->
        [Input |-> inputs[i], Hash |-> GenerateInputHash(inputs[i], model),
         Index |-> i, Cached |-> <<>>]]

\* the positions of the batch items that count as misses
UncachedIdx(items) == {i \in 1..Len(items) : items[i].Cached = <<>>}

RECURSIVE Ascending(_)
\* the elements of a finite set of integers in ascending order
Ascending(S) ==
    IF S = {} THEN <<>>
    ELSE LET m == CHOOSE x \in S : \A y \in S : x <= y
         IN  <<m>> \o Ascending(S \ {m})

\* getUncachedItems: the items with Cached == nil, in batch order
getUncachedItems(items) ==
    LET idx == Ascending(UncachedIdx(items))
    IN  [k \in 1..Len(idx) |-> items[idx[k]]]

\* the result slot assembleBatchResults writes for miss item k
MissResult(uncachedItems, embeddings, k) ==
    [Embedding |-> embeddings[k], Cached |-> FALSE, Index |-> uncachedItems[k].Index]

\* assembleBatchResults: originalSize slots, a slot empty (nil) where neither
\* loop wrote
assembleBatchResults(items, uncachedItems, embeddings, originalSize) ==
    [i \in 1..originalSize |->
        IF \E k \in 1..Len(uncachedItems) :
               k <= Len(embeddings) /\ uncachedItems[k].Index = i
        THEN LET k == CHOOSE k \in 1..Len(uncachedItems) :
                          /\ k <= Len(embeddings) /\ uncachedItems[k].Index = i
                          /\ \A k2 \in (k + 1)..Len(uncachedItems) :
                                 ~(k2 <= Len(embeddings) /\ uncachedItems[k2].Index = i)
             IN  <<MissResult(uncachedItems, embeddings, k)>>
        ELSE IF \E j \in 1..Len(items) : items[j].Cached # <<>> /\ items[j].Index = i
        THEN LET j == CHOOSE j \in 1..Len(items) :
                          items[j].Cached # <<>> /\ items[j].Index = i
             IN  <<[Embedding |-> items[j].Cached[1].EmbeddingVector, Cached |-> TRUE,
                    Index |-> items[j].Index]>>
        ELSE <<>>]

\* extractEmbeddings: a nil slot gives a nil vector (<<>>)
extractEmbeddings(results) ==
    [i \in 1..Len(results) |-> IF results[i] # <<>> THEN results[i][1].Embedding ELSE <<>>]

\* extractCachedFlags: a nil slot gives false
extractCachedFlags(results) ==
    [i \in 1..Len(results) |-> IF results[i] # <<>> THEN results[i][1].Cached ELSE FALSE]

\* the answers of handleEmbed; the batch answer is built without TokenUsage,
\* which so keeps its zero value
OkSingle(embedding, model, cached) ==
    [status |-> "ok", err |-> Nil, cause |-> NoErr, batch |-> FALSE,
     Embedding |-> embedding, Embeddings |-> <<>>, Model |-> model,
     Cached |-> cached, CachedItems |-> <<>>, TokenUsage |-> ZeroUsage]

\* the answer of processSingleRequest after a provider call (CreateEmbedding
\* hands on the first vector, the model and the usage of the batch call)
OkSingleMiss(ai) ==
    [OkSingle(ai.Embeddings[1], ai.Model, FALSE) EXCEPT !.TokenUsage = ai.TokenUsage]

OkBatch(embeddings, model, flags) ==
    [status |-> "ok", err |-> Nil, cause |-> NoErr, batch |-> TRUE,
     Embedding |-> <<>>, Embeddings |-> embeddings, Model |-> model,
     Cached |-> FALSE, CachedItems |-> flags, TokenUsage |-> ZeroUsage]

Failure(status, err, cause) ==
    [status |-> status, err |-> err, cause |-> cause, batch |-> FALSE,
     Embedding |-> <<>>, Embeddings |-> <<>>, Model |-> <<>>,
     Cached |-> FALSE, CachedItems |-> <<>>, TokenUsage |-> ZeroUsage]

NoResp == Failure(Nil, Nil, NoErr)

\* the end of processBatchRequest: assemble and build the response
BatchResponse(items, embeddings, model) ==
    LET results == assembleBatchResults(items, getUncachedItems(items), embeddings,
                                        Len(items))
    IN  OkBatch(extractEmbeddings(results), model, extractCachedFlags(results))

RECURSIVE storeBatchEmbeddings(_, _, _, _, _, _)
\* storeBatchEmbeddings from miss item k on: one StoreEmbedding per miss item
\* that has a result vector; the writes at the positions in failed fail (their
\* errors are logged only)
storeBatchEmbeddings(st, uncachedItems, embeddings, model, failed, k) ==
    IF k > Len(uncachedItems) THEN st
    ELSE LET st2 == IF k <= Len(embeddings) /\ k \notin failed
                    THEN StoreEmbedding(st, uncachedItems[k].Hash, uncachedItems[k].Input,
                                        model, embeddings[k])
                    ELSE st
         IN  storeBatchEmbeddings(st2, uncachedItems, embeddings, model, failed, k + 1)

NoAIResponse ==
    [err |-> NoErr, Embeddings |-> <<>>, Model |-> <<>>, TokenUsage |-> ZeroUsage]

(***************************************************************************)
(* The request path, one request at a time.                                *)
(***************************************************************************)
InitReq ==
    /\ store = {}
    /\ pc = "idle"
    /\ req = NoRequest
    /\ modelName = <<>>
    /\ batchItems = <<>>
    /\ tracked = <<>>
    /\ resp = NoResp
    /\ aiInputs = <<>>
    /\ attempt = 0
    /\ lastErr = NoErr
    /\ ctxDone = FALSE
    /\ aiResponse = NoAIResponse
    /\ storeAtLookup = {}
    /\ writeFailed = FALSE
    /\ prevSame = <<>>
    /\ lookupDb = Nil
    /\ clientCalls = <<>>
    /\ apiCalls = 0
    /\ goodAt = 0
    /\ askedModel = <<>>
    /\ waited = 0
    /\ attemptAt = <<>>
    /\ directCall = <<>>

\* handleEmbed up to the store lookup: bind, ValidateRequest, GetEmbedding's
\* dispatch, and processSingleRequest / processBatchRequest up to the lookup
HandleEmbed(r) ==
    /\ pc = "idle"
    /\ req' = r
    /\ prevSame' = IF prevSame # <<>> /\ prevSame[1].req = r THEN prevSame ELSE <<>>
    /\ LET inputs == InputsOf(r)
           model  == IF r.Model = <<>> THEN DefaultModel ELSE r.Model
       IN  IF BindError(r) # Nil
           THEN /\ resp' = Failure("invalid body", BindError(r), NoErr)
                /\ pc' = "done"
                /\ UNCHANGED <<modelName, batchItems>>
           ELSE IF ValidateRequest(r) # NoErr
           THEN /\ resp' = Failure("validation error", ValidateRequest(r).msg,
                                   ValidateRequest(r))
                /\ pc' = "done"
                /\ UNCHANGED <<modelName, batchItems>>
           ELSE IF NormalizeInputErr(r) # NoErr
           THEN /\ resp' = Failure("error", NormalizeInputErr(r).msg, NormalizeInputErr(r))
                /\ pc' = "done"
                /\ UNCHANGED <<modelName, batchItems>>
           ELSE IF ~isBatchInput(r) /\ inputs[1] = <<>>
           THEN /\ resp' = Failure("error", "input text cannot be empty", NoErr)
                /\ pc' = "done"
                /\ UNCHANGED <<modelName, batchItems>>
           ELSE IF isBatchInput(r) /\ Len(inputs) = 0
           THEN /\ resp' = Failure("error", "batch input cannot be empty", NoErr)
                /\ pc' = "done"
                /\ UNCHANGED <<modelName, batchItems>>
           ELSE IF isBatchInput(r) /\ Len(inputs) > MaxBatchItems
           THEN /\ resp' = Failure("error", "batch input too large (max 1000 items)", NoErr)
                /\ pc' = "done"
                /\ UNCHANGED <<modelName, batchItems>>
           ELSE /\ modelName' = model
                /\ batchItems' = prepareBatchItems(inputs, model)
                /\ pc' = "lookup"
                /\ UNCHANGED resp
    /\ UNCHANGED <<store, tracked, aiInputs, attempt, lastErr, ctxDone, aiResponse,
                   storeAtLookup, writeFailed, lookupDb, clientCalls, apiCalls, goodAt,
                   askedModel>>
    /\ UNCHANGED cliVars
    /\ UNCHANGED <<trkVars, raceVars, fpVars, dbVars>>

\* a hit loop that records the usage of the first hit only
HitIdsFirstOnly(items) ==
    LET idx == Ascending({i \in 1..Len(items) : items[i].Cached # <<>>})
    IN  [k \in 1..(IF Len(idx) > 0 THEN 1 ELSE 0) |-> items[idx[k]].Cached[1].ID]

\* the ids of the hits, in batch order: one TrackUsage call each
HitIds(items) ==
    LET idx == Ascending({i \in 1..Len(items) : items[i].Cached # <<>>})
    IN  [k \in 1..Len(idx) |-> items[idx[k]].Cached[1].ID]

\* the store lookup and what follows it up to the provider call:
\* processSingleRequest lines 132-162, processBatchRequest lines 247-276
CacheLookup(dbUp) ==
    /\ pc = "lookup"
    /\ lookupDb' = IF dbUp THEN "up" ELSE "down"
    /\ storeAtLookup' = store
    /\ IF ~isBatchInput(req)
       THEN LET got == GetCachedEmbedding(store, batchItems[1].Hash, dbUp)
            IN  IF got.err # Nil
                THEN /\ resp' = Failure("error", "failed to check cache", NoErr)
                     /\ pc' = "done"
                     /\ UNCHANGED <<batchItems, tracked, aiInputs, clientCalls>>
                ELSE IF got.cached # <<>>
                THEN /\ tracked' = <<got.cached[1].ID>>
                     /\ batchItems' = [batchItems EXCEPT ![1].Cached = got.cached]
                     /\ resp' = OkSingle(got.cached[1].EmbeddingVector,
                                         got.cached[1].ModelName, TRUE)
                     /\ pc' = "done"
                     /\ UNCHANGED <<aiInputs, clientCalls>>
                ELSE /\ aiInputs' = <<batchItems[1].Input>>
                     /\ clientCalls' = Append(clientCalls, <<batchItems[1].Input>>)
                     /\ pc' = "provider"
                     /\ UNCHANGED <<batchItems, tracked, resp>>
       ELSE LET got == GetBatchCachedEmbeddings(store, batchItems, dbUp)
            IN  IF got.err # Nil
                THEN /\ resp' = Failure("error", "failed to check cache", NoErr)
                     /\ pc' = "done"
                     /\ UNCHANGED <<batchItems, tracked, aiInputs, clientCalls>>
                ELSE /\ batchItems' = got.items
                     /\ tracked' = HitIds(got.items)
                     /\ IF Len(getUncachedItems(got.items)) > 0
                        THEN /\ aiInputs' = [k \in 1..Len(getUncachedItems(got.items)) |->
                                                getUncachedItems(got.items)[k].Input]
                             /\ clientCalls' = Append(clientCalls, aiInputs')
                             /\ pc' = "provider"
                             /\ UNCHANGED resp
                        ELSE /\ resp' = BatchResponse(got.items, <<>>, modelName)
                             /\ pc' = "done"
                             /\ UNCHANGED <<aiInputs, clientCalls>>
    /\ UNCHANGED <<store, req, modelName, attempt, lastErr, ctxDone, aiResponse,
                   writeFailed, prevSame, apiCalls, goodAt, askedModel>>
    /\ UNCHANGED cliVars
    /\ UNCHANGED <<trkVars, raceVars, fpVars, dbVars>>

\* a caller that answers a failed provider call of a batch with the hits alone
ClientReturnsHitsOnError(ret) ==
    /\ aiResponse' = ret
    /\ IF ret.err # NoErr
       THEN /\ resp' = IF isBatchInput(req) THEN BatchResponse(batchItems, <<>>, modelName)
                        ELSE Failure("error", "failed to create embeddings", ret.err)
            /\ pc' = "done"
       ELSE /\ pc' = "store"
            /\ UNCHANGED resp

\* what the caller does with a returned client call: an error ends the request
\* (processSingleRequest 163-168, processBatchRequest 277-281)
ClientReturns(ret) ==
    /\ aiResponse' = ret
    /\ IF ret.err # NoErr
       THEN /\ resp' = Failure("error", "failed to create embeddings", ret.err)
            /\ pc' = "done"
       ELSE /\ pc' = "store"
            /\ UNCHANGED resp

\* the timeout of the call's context fires, or the caller cancels
CtxExpire ==
    /\ pc = "provider"
    /\ ~ctxDone
    /\ ctxDone' = TRUE
    /\ UNCHANGED <<store, pc, req, modelName, batchItems, tracked, resp, aiInputs,
                   attempt, lastErr, aiResponse, storeAtLookup, writeFailed, prevSame,
                   lookupDb, clientCalls,
                   apiCalls, goodAt, askedModel>>
    /\ UNCHANGED cliVars
    /\ UNCHANGED <<trkVars, raceVars, fpVars, dbVars>>

\* the backoff select of a retry returns ctx.Err()
BackoffCancelled ==
    /\ pc = "provider"
    /\ attempt > 0
    /\ LoopContinues(attempt)
    /\ BackoffSelect(ctxDone) = "ctx"
    /\ ClientReturns(CtxErr)
    /\ UNCHANGED <<store, req, modelName, batchItems, tracked, aiInputs, attempt,
                   lastErr, ctxDone, storeAtLookup, writeFailed, prevSame, lookupDb,
                   clientCalls, apiCalls,
                   goodAt, askedModel>>
    /\ UNCHANGED cliVars
    /\ UNCHANGED <<trkVars, raceVars, fpVars, dbVars>>

\* one pass through CreateBatchEmbeddings: its input checks when the call
\* starts, else one iteration of the retry loop that reaches the API call (on a
\* retry, after the backoff wait) with the API's answer; the iteration that ends
\* the loop also makes the return after the loop
ProviderAttempt(outcome) ==
    /\ pc = "provider"
    /\ IF attempt = 0 /\ ClientEntryErr(aiInputs) # NoErr
       THEN /\ ClientReturns([err |-> ClientEntryErr(aiInputs), Embeddings |-> <<>>,
                              Model |-> <<>>, TokenUsage |-> ZeroUsage])
            /\ UNCHANGED <<attempt, lastErr, apiCalls, goodAt, askedModel, waited,
                           attemptAt>>
       ELSE /\ LoopContinues(attempt)
            /\ attempt > 0 => BackoffSelect(ctxDone) = "timer"
            /\ waited' = IF attempt > 0 THEN waited + Backoff(attempt) ELSE waited
            /\ attemptAt' = Append(attemptAt, waited')
            /\ Len(outcome.Data) <= Len(aiInputs)
            /\ ctxDone => outcome.err
            /\ apiCalls' = apiCalls + 1
            /\ askedModel' = DefaultModel
            /\ LET step == AttemptBody(lastErr, outcome)
               IN  /\ lastErr' = step.lastErr
                   /\ goodAt' = IF goodAt = 0 /\ attempt > 0 /\ WellFormed(outcome)
                                THEN attempt + 1 ELSE goodAt
                   /\ IF step.ret # <<>>
                      THEN /\ ClientReturns(step.ret[1])
                           /\ UNCHANGED attempt
                      ELSE IF LoopContinues(attempt + 1)
                      THEN /\ attempt' = attempt + 1
                           /\ UNCHANGED <<aiResponse, resp, pc>>
                      ELSE /\ attempt' = attempt + 1
                           /\ ClientReturns(ExhaustedErr(step.lastErr))
    /\ UNCHANGED <<store, req, modelName, batchItems, tracked, aiInputs, ctxDone,
                   storeAtLookup, writeFailed, prevSame, lookupDb, clientCalls, directCall>>
    /\ UNCHANGED <<trkVars, raceVars, fpVars, dbVars>>

\* a write-through whose StoreEmbedding error ends the request with an error
CompletePropagatesWriteError(failed) ==
    /\ pc = "store"
    /\ IF ~isBatchInput(req)
       THEN /\ failed \subseteq {1}
            /\ store' = IF 1 \in failed THEN store
                        ELSE StoreEmbedding(store, batchItems[1].Hash, batchItems[1].Input,
                                            modelName, aiResponse.Embeddings[1])
            /\ resp' = IF failed # {} THEN Failure("error", "failed to store embedding", NoErr)
                        ELSE OkSingleMiss(aiResponse)
       ELSE /\ failed \subseteq 1..Len(aiInputs)
            /\ store' = storeBatchEmbeddings(store, getUncachedItems(batchItems),
                                             aiResponse.Embeddings, modelName, failed, 1)
            /\ resp' = IF failed # {} THEN Failure("error", "failed to store embedding", NoErr)
                        ELSE BatchResponse(batchItems, aiResponse.Embeddings, modelName)
    /\ pc' = "done"
    /\ writeFailed' = (failed # {})
    /\ UNCHANGED <<req, modelName, batchItems, tracked, aiInputs, attempt, lastErr,
                   ctxDone, aiResponse, storeAtLookup, prevSame, lookupDb, clientCalls,
                   apiCalls, goodAt, askedModel>>
    /\ UNCHANGED cliVars
    /\ UNCHANGED <<trkVars, raceVars, fpVars, dbVars>>

\* the write-through and the response: processSingleRequest lines 170-197,
\* processBatchRequest lines 283-302; failed are the StoreEmbedding calls
\* that fail
Complete(failed) ==
    /\ pc = "store"
    /\ IF ~isBatchInput(req)
       THEN /\ failed \subseteq {1}
            /\ store' = IF 1 \in failed THEN store
                        ELSE StoreEmbedding(store, batchItems[1].Hash, batchItems[1].Input,
                                            modelName, aiResponse.Embeddings[1])
            /\ resp' = OkSingleMiss(aiResponse)
       ELSE /\ failed \subseteq 1..Len(aiInputs)
            /\ store' = storeBatchEmbeddings(store, getUncachedItems(batchItems),
                                             aiResponse.Embeddings, modelName, failed, 1)
            /\ resp' = BatchResponse(batchItems, aiResponse.Embeddings, modelName)
    /\ pc' = "done"
    /\ writeFailed' = (failed # {})
    /\ UNCHANGED <<req, modelName, batchItems, tracked, aiInputs, attempt, lastErr,
                   ctxDone, aiResponse, storeAtLookup, prevSame, lookupDb, clientCalls,
                   apiCalls, goodAt, askedModel>>
    /\ UNCHANGED cliVars
    /\ UNCHANGED <<trkVars, raceVars, fpVars, dbVars>>

\* the handler has answered and returned: its locals are gone; the next
\* request starts from a clean slate
NextRequest ==
    /\ pc = "done"
    /\ pc' = "idle"
    /\ prevSame' = IF req.type = "string"
                   THEN <<[req       |-> req,
                           healthy   |-> /\ lookupDb = "up" /\ ~ctxDone
                                         /\ lastErr = NoErr /\ ~writeFailed,
                           status    |-> resp.status,
                           Embedding |-> resp.Embedding]>>
                   ELSE <<>>
    /\ req # NoRequest
    /\ req' = NoRequest
    /\ modelName' = <<>>
    /\ batchItems' = <<>>
    /\ tracked' = <<>>
    /\ resp' = NoResp
    /\ aiInputs' = <<>>
    /\ attempt' = 0
    /\ lastErr' = NoErr
    /\ ctxDone' = FALSE
    /\ aiResponse' = NoAIResponse
    /\ storeAtLookup' = {}
    /\ writeFailed' = FALSE
    /\ lookupDb' = Nil
    /\ clientCalls' = <<>>
    /\ apiCalls' = 0
    /\ goodAt' = 0
    /\ askedModel' = <<>>
    /\ waited' = 0
    /\ attemptAt' = <<>>
    /\ directCall' = <<>>
    /\ UNCHANGED store
    /\ UNCHANGED <<trkVars, raceVars, fpVars, dbVars>>

Next ==
    \/ \E r \in Requests : HandleEmbed(r)
    \/ \E dbUp \in BOOLEAN : CacheLookup(dbUp)
    \/ CtxExpire
    \/ BackoffCancelled
    \/ \E outcome \in APIOutcomes(Len(aiInputs)) : ProviderAttempt(outcome)
    \/ \E failed \in SUBSET (1..Len(aiInputs)) : Complete(failed)
    \/ NextRequest

(***************************************************************************)
(* The provider client called on its own: CreateEmbedding and              *)
(* CreateBatchEmbeddings with any input, as the package exports them.      *)
(***************************************************************************)
\* the input collections of the direct calls of CreateBatchEmbeddings
ClientInputs ==
    UNION {[1..k -> {<<"a">>, <<"c">>}] : k \in 0..MaxBatch} \cup {OversizeBatch}

\* the input strings of the direct calls of CreateEmbedding
ClientTexts == {<<>>, <<"a">>}

\* the direct calls: CreateBatchEmbeddings(inputs), CreateEmbedding(input)
ClientCalls ==
    {[kind |-> "batch", inputs |-> in] : in \in ClientInputs} \cup
    {[kind |-> "single", inputs |-> <<t>>] : t \in ClientTexts}

\* the call is made: CreateEmbedding refuses the empty string itself and
\* else calls CreateBatchEmbeddings with the one-element collection
ClientCall(call) ==
    /\ pc = "idle"
    /\ directCall' = <<call>>
    /\ IF call.kind = "single" /\ call.inputs[1] = <<>>
       THEN /\ aiResponse' = [err |-> ClientErr("input text cannot be empty", 0, Nil, 0),
                              Embeddings |-> <<>>, Model |-> <<>>,
                              TokenUsage |-> ZeroUsage]
            /\ pc' = "done"
            /\ UNCHANGED <<aiInputs, clientCalls>>
       ELSE /\ aiInputs' = call.inputs
            /\ clientCalls' = Append(clientCalls, call.inputs)
            /\ pc' = "provider"
            /\ UNCHANGED aiResponse
    /\ UNCHANGED <<store, req, modelName, batchItems, tracked, resp, attempt, lastErr,
                   ctxDone, storeAtLookup, writeFailed, prevSame, lookupDb, apiCalls,
                   goodAt, askedModel, waited, attemptAt>>
    /\ UNCHANGED <<trkVars, raceVars, fpVars, dbVars>>

\* the direct call has returned to its caller
ClientCallDone ==
    /\ pc \in {"store", "done"}
    /\ directCall # <<>>
    /\ pc' = "idle"
    /\ directCall' = <<>>
    /\ resp' = NoResp
    /\ aiInputs' = <<>>
    /\ attempt' = 0
    /\ lastErr' = NoErr
    /\ ctxDone' = FALSE
    /\ aiResponse' = NoAIResponse
    /\ clientCalls' = <<>>
    /\ apiCalls' = 0
    /\ goodAt' = 0
    /\ askedModel' = <<>>
    /\ waited' = 0
    /\ attemptAt' = <<>>
    /\ UNCHANGED <<store, req, modelName, batchItems, tracked, storeAtLookup, writeFailed,
                   prevSame, lookupDb>>
    /\ UNCHANGED <<trkVars, raceVars, fpVars, dbVars>>

NextClient ==
    \/ \E call \in ClientCalls : ClientCall(call)
    \/ CtxExpire
    \/ BackoffCancelled
    \/ \E outcome \in APIOutcomes(MaxBatch) : ProviderAttempt(outcome)
    \/ ClientCallDone

(***************************************************************************)
(* internal/tracker: the usage tracker.  The k-th TrackUsage call passes   *)
(* the id k, so every call is told apart.                                  *)
(***************************************************************************)
Flushers == {"ingest", "timer", "stop"}

\* tracker.New followed by Start: both goroutines run, nothing is pending
InitTracker ==
    /\ usageChan = <<>>
    /\ chanClosed = FALSE
    /\ stopClosed = FALSE
    /\ buffer = <<>>
    /\ ingestPc = "select"
    /\ timerPc = "select"
    /\ stopPc = "running"
    /\ inFlight = [f \in Flushers |-> <<>>]
    /\ markUsed = <<>>
    /\ accepted = {}
    /\ acceptedAtStop = {}
    /\ dropped = {}
    /\ panicked = FALSE
    /\ nTracked = 0
    /\ ticks = "none"
    /\ trackedAtTick = 0
    /\ failedWrites = {}

\* a TrackUsage without the default case: a plain send, which waits while the
\* channel is full
TrackUsageBlockingSend ==
    /\ nTracked < MaxTracked
    /\ nTracked' = nTracked + 1
    /\ IF chanClosed
       THEN /\ panicked' = TRUE
            /\ UNCHANGED <<usageChan, accepted, dropped>>
       ELSE /\ Len(usageChan) < ChanCap
            /\ usageChan' = Append(usageChan, nTracked + 1)
            /\ accepted' = accepted \cup {nTracked + 1}
            /\ UNCHANGED <<dropped, panicked>>
    /\ UNCHANGED <<chanClosed, stopClosed, buffer, ingestPc, timerPc, stopPc, inFlight,
                   markUsed, acceptedAtStop>>
    /\ UNCHANGED <<ticks, trackedAtTick, failedWrites>>
    /\ UNCHANGED <<reqVars, raceVars, fpVars, dbVars>>

\* TrackUsage: select { case ut.usageChan <- id: default: drop }.  A send on a
\* closed channel panics, also inside a select
TrackUsage ==
    /\ nTracked < MaxTracked
    /\ nTracked' = nTracked + 1
    /\ IF chanClosed
       THEN /\ panicked' = TRUE
            /\ UNCHANGED <<usageChan, accepted, dropped>>
       ELSE IF Len(usageChan) < ChanCap
       THEN /\ usageChan' = Append(usageChan, nTracked + 1)
            /\ accepted' = accepted \cup {nTracked + 1}
            /\ UNCHANGED <<dropped, panicked>>
       ELSE /\ dropped' = dropped \cup {[id |-> nTracked + 1, len |-> Len(usageChan)]}
            /\ UNCHANGED <<usageChan, accepted, panicked>>
    /\ UNCHANGED <<chanClosed, stopClosed, buffer, ingestPc, timerPc, stopPc, inFlight,
                   markUsed, acceptedAtStop>>
    /\ UNCHANGED <<ticks, trackedAtTick, failedWrites>>
    /\ UNCHANGED <<reqVars, raceVars, fpVars, dbVars>>

\* an ingest step whose flush test is "len(ut.buffer) > ut.batchSize"
IngestRecvFlushesLate ==
    /\ ingestPc = "select"
    /\ usageChan # <<>>
    /\ usageChan' = Tail(usageChan)
    /\ buffer' = Append(buffer, Head(usageChan))
    /\ ingestPc' = IF Len(buffer') > BatchSize THEN "flush" ELSE "select"
    /\ UNCHANGED <<chanClosed, stopClosed, timerPc, stopPc, inFlight, markUsed, accepted,
                   acceptedAtStop, dropped, panicked, nTracked>>
    /\ UNCHANGED <<ticks, trackedAtTick, failedWrites>>
    /\ UNCHANGED <<reqVars, raceVars, fpVars, dbVars>>

\* an ingest step that never flushes: only the timer and Stop do
IngestRecvNeverFlushes ==
    /\ ingestPc = "select"
    /\ usageChan # <<>>
    /\ usageChan' = Tail(usageChan)
    /\ buffer' = Append(buffer, Head(usageChan))
    /\ ingestPc' = "select"
    /\ UNCHANGED <<chanClosed, stopClosed, timerPc, stopPc, inFlight, markUsed, accepted,
                   acceptedAtStop, dropped, panicked, nTracked>>
    /\ UNCHANGED <<ticks, trackedAtTick, failedWrites>>
    /\ UNCHANGED <<reqVars, raceVars, fpVars, dbVars>>

\* an ingest step that appends the id at the head of the channel and leaves it
\* there
IngestRecvPeeks ==
    /\ ingestPc = "select"
    /\ usageChan # <<>>
    /\ usageChan' = usageChan
    /\ buffer' = Append(buffer, Head(usageChan))
    /\ ingestPc' = IF Len(buffer') >= BatchSize THEN "flush" ELSE "select"
    /\ UNCHANGED <<chanClosed, stopClosed, timerPc, stopPc, inFlight, markUsed, accepted,
                   acceptedAtStop, dropped, panicked, nTracked>>
    /\ UNCHANGED <<ticks, trackedAtTick, failedWrites>>
    /\ UNCHANGED <<reqVars, raceVars, fpVars, dbVars>>

\* processUsageUpdates, case id, ok := <-ut.usageChan with ok: append under the
\* lock, then flush if the buffer reached batchSize
IngestRecv ==
    /\ ingestPc = "select"
    /\ usageChan # <<>>
    /\ usageChan' = Tail(usageChan)
    /\ buffer' = Append(buffer, Head(usageChan))
    /\ ingestPc' = IF Len(buffer') >= BatchSize THEN "flush" ELSE "select"
    /\ UNCHANGED <<chanClosed, stopClosed, timerPc, stopPc, inFlight, markUsed, accepted,
                   acceptedAtStop, dropped, panicked, nTracked>>
    /\ UNCHANGED <<ticks, trackedAtTick, failedWrites>>
    /\ UNCHANGED <<reqVars, raceVars, fpVars, dbVars>>

\* processUsageUpdates, the receive on the closed and drained channel (!ok)
IngestClosed ==
    /\ ingestPc = "select"
    /\ chanClosed
    /\ usageChan = <<>>
    /\ ingestPc' = "exited"
    /\ UNCHANGED <<usageChan, chanClosed, stopClosed, buffer, timerPc, stopPc, inFlight,
                   markUsed, accepted, acceptedAtStop, dropped, panicked, nTracked>>
    /\ UNCHANGED <<ticks, trackedAtTick, failedWrites>>
    /\ UNCHANGED <<reqVars, raceVars, fpVars, dbVars>>

\* processUsageUpdates, case <-ut.stopChan: the select may take it whenever
\* stopChan is closed, whatever the channel still holds
IngestStop ==
    /\ ingestPc = "select"
    /\ stopClosed
    /\ ingestPc' = "exited"
    /\ UNCHANGED <<usageChan, chanClosed, stopClosed, buffer, timerPc, stopPc, inFlight,
                   markUsed, accepted, acceptedAtStop, dropped, panicked, nTracked>>
    /\ UNCHANGED <<ticks, trackedAtTick, failedWrites>>
    /\ UNCHANGED <<reqVars, raceVars, fpVars, dbVars>>

\* flushPeriodically, case <-ticker.C
TimerTick ==
    /\ timerPc = "select"
    /\ timerPc' = "flush"
    /\ UNCHANGED <<usageChan, chanClosed, stopClosed, buffer, ingestPc, stopPc, inFlight,
                   markUsed, accepted, acceptedAtStop, dropped, panicked, nTracked>>
    /\ ticks' = IF ticks = "none" THEN "one" ELSE "many"
    /\ trackedAtTick' = IF ticks = "none" THEN nTracked ELSE trackedAtTick
    /\ UNCHANGED failedWrites
    /\ UNCHANGED <<reqVars, raceVars, fpVars, dbVars>>

\* flushPeriodically, case <-ut.stopChan
TimerStop ==
    /\ timerPc = "select"
    /\ stopClosed
    /\ timerPc' = "exited"
    /\ UNCHANGED <<usageChan, chanClosed, stopClosed, buffer, ingestPc, stopPc, inFlight,
                   markUsed, accepted, acceptedAtStop, dropped, panicked, nTracked>>
    /\ UNCHANGED <<ticks, trackedAtTick, failedWrites>>
    /\ UNCHANGED <<reqVars, raceVars, fpVars, dbVars>>

FlusherPc(f) == IF f = "ingest" THEN ingestPc ELSE IF f = "timer" THEN timerPc ELSE stopPc

\* where flushBuffer returns to
AfterFlush(f) == IF f = "stop" THEN "stopped" ELSE "select"

SetFlusherPc(f, v) ==
    /\ ingestPc' = IF f = "ingest" THEN v ELSE ingestPc
    /\ timerPc' = IF f = "timer" THEN v ELSE timerPc
    /\ stopPc' = IF f = "stop" THEN v ELSE stopPc

\* a flushBuffer that returns without a write while the buffer is below batchSize
FlushTakeSkipsSmall(f) ==
    /\ FlusherPc(f) = "flush"
    /\ IF Len(buffer) < BatchSize
       THEN /\ SetFlusherPc(f, AfterFlush(f))
            /\ UNCHANGED <<buffer, inFlight>>
       ELSE /\ inFlight' = [inFlight EXCEPT ![f] = buffer]
            /\ buffer' = <<>>
            /\ SetFlusherPc(f, "write")
    /\ UNCHANGED <<usageChan, chanClosed, stopClosed, markUsed, accepted, acceptedAtStop,
                   dropped, panicked, nTracked>>
    /\ UNCHANGED <<ticks, trackedAtTick, failedWrites>>
    /\ UNCHANGED <<reqVars, raceVars, fpVars, dbVars>>

\* a flushBuffer that copies the buffer out without truncating it
FlushTakeKeepsBuffer(f) ==
    /\ FlusherPc(f) = "flush"
    /\ IF Len(buffer) = 0
       THEN /\ SetFlusherPc(f, AfterFlush(f))
            /\ UNCHANGED <<buffer, inFlight>>
       ELSE /\ inFlight' = [inFlight EXCEPT ![f] = buffer]
            /\ buffer' = buffer
            /\ SetFlusherPc(f, "write")
    /\ UNCHANGED <<usageChan, chanClosed, stopClosed, markUsed, accepted, acceptedAtStop,
                   dropped, panicked, nTracked>>
    /\ UNCHANGED <<ticks, trackedAtTick, failedWrites>>
    /\ UNCHANGED <<reqVars, raceVars, fpVars, dbVars>>

\* flushBuffer, the part under bufferMutex: return on an empty buffer, else
\* copy the buffer out and truncate it
FlushTake(f) ==
    /\ FlusherPc(f) = "flush"
    /\ IF Len(buffer) = 0
       THEN /\ SetFlusherPc(f, AfterFlush(f))
            /\ UNCHANGED <<buffer, inFlight>>
       ELSE /\ inFlight' = [inFlight EXCEPT ![f] = buffer]
            /\ buffer' = <<>>
            /\ SetFlusherPc(f, "write")
    /\ UNCHANGED <<usageChan, chanClosed, stopClosed, markUsed, accepted, acceptedAtStop,
                   dropped, panicked, nTracked>>
    /\ UNCHANGED <<ticks, trackedAtTick, failedWrites>>
    /\ UNCHANGED <<reqVars, raceVars, fpVars, dbVars>>

\* a flushBuffer that puts the batch of a failed write back in the buffer
FlushWriteRequeues(f, ok) ==
    /\ FlusherPc(f) = "write"
    /\ markUsed' = Append(markUsed, inFlight[f])
    /\ failedWrites' = IF ok THEN failedWrites ELSE failedWrites \cup {inFlight[f]}
    /\ buffer' = IF ok THEN buffer ELSE inFlight[f] \o buffer
    /\ inFlight' = [inFlight EXCEPT ![f] = <<>>]
    /\ SetFlusherPc(f, AfterFlush(f))
    /\ UNCHANGED <<usageChan, chanClosed, stopClosed, accepted, acceptedAtStop,
                   dropped, panicked, nTracked>>
    /\ UNCHANGED <<ticks, trackedAtTick>>
    /\ UNCHANGED <<reqVars, raceVars, fpVars, dbVars>>

\* flushBuffer after the lock: updateUsageTimestamps(batch), whose error (~ok)
\* is logged only
FlushWrite(f, ok) ==
    /\ FlusherPc(f) = "write"
    /\ markUsed' = Append(markUsed, inFlight[f])
    /\ failedWrites' = IF ok THEN failedWrites ELSE failedWrites \cup {inFlight[f]}
    /\ inFlight' = [inFlight EXCEPT ![f] = <<>>]
    /\ SetFlusherPc(f, AfterFlush(f))
    /\ UNCHANGED <<usageChan, chanClosed, stopClosed, buffer, accepted, acceptedAtStop,
                   dropped, panicked, nTracked>>
    /\ UNCHANGED <<ticks, trackedAtTick>>
    /\ UNCHANGED <<reqVars, raceVars, fpVars, dbVars>>

\* Stop: close(ut.stopChan)
StopCloseStop ==
    /\ stopPc = "running"
    /\ stopClosed' = TRUE
    /\ acceptedAtStop' = accepted
    /\ stopPc' = "closedStop"
    /\ UNCHANGED <<usageChan, chanClosed, buffer, ingestPc, timerPc, inFlight, markUsed,
                   accepted, dropped, panicked, nTracked>>
    /\ UNCHANGED <<ticks, trackedAtTick, failedWrites>>
    /\ UNCHANGED <<reqVars, raceVars, fpVars, dbVars>>

\* Stop: close(ut.usageChan)
StopCloseChan ==
    /\ stopPc = "closedStop"
    /\ chanClosed' = TRUE
    /\ stopPc' = "waiting"
    /\ UNCHANGED <<usageChan, stopClosed, buffer, ingestPc, timerPc, inFlight, markUsed,
                   accepted, acceptedAtStop, dropped, panicked, nTracked>>
    /\ UNCHANGED <<ticks, trackedAtTick, failedWrites>>
    /\ UNCHANGED <<reqVars, raceVars, fpVars, dbVars>>

\* Stop: ut.wg.Wait() returns once both goroutines are done, then the final
\* flushBuffer starts
StopWait ==
    /\ stopPc = "waiting"
    /\ ingestPc = "exited"
    /\ timerPc = "exited"
    /\ stopPc' = "flush"
    /\ UNCHANGED <<usageChan, chanClosed, stopClosed, buffer, ingestPc, timerPc, inFlight,
                   markUsed, accepted, acceptedAtStop, dropped, panicked, nTracked>>
    /\ UNCHANGED <<ticks, trackedAtTick, failedWrites>>
    /\ UNCHANGED <<reqVars, raceVars, fpVars, dbVars>>

NextTracker ==
    \/ TrackUsage
    \/ IngestRecv
    \/ IngestClosed
    \/ IngestStop
    \/ TimerTick
    \/ TimerStop
    \/ \E f \in Flushers : FlushTake(f)
    \/ \E f \in Flushers, ok \in BOOLEAN : FlushWrite(f, ok)
    \/ StopCloseStop
    \/ StopCloseChan
    \/ StopWait

(***************************************************************************)
(* The table with its timestamp columns, under concurrent requests.  Each  *)
(* gin handler runs in its own goroutine; a statement sent with pool.Exec  *)
(* is one transaction, whose NOW() is the time it started; it takes effect *)
(* on the row later, when it has the row's lock.  The retry loop of the    *)
(* provider call is one step here, the tracker is the set of pending ids.  *)
(***************************************************************************)
\* the goroutines serving POST /embed at the same time
Handlers == {1, 2}

\* the requests the concurrent handlers serve
RaceRequests ==
    {Request("string", <<"a">>, <<>>, 0, <<>>),
     Request("array", <<>>, <<<<"a">>>>, 0, <<>>)}

\* what a CreateBatchEmbeddings call for n inputs returns: an error, or one
\* non-empty vector per input
RaceOutcomes(n) ==
    {[err |-> TRUE, Data |-> <<>>]} \cup {[err |-> FALSE, Data |-> d] : d \in [1..n -> Vectors]}

\* the timestamp columns after the INSERT ... ON CONFLICT DO UPDATE of
\* StoreEmbedding, run by a transaction whose NOW() is now: a new row gets
\* created_at, updated_at (their DEFAULT NOW()) and used_at; a row in conflict
\* gets updated_at and used_at
UpsertStamps(stamps, inputHash, now) ==
    [h \in DOMAIN stamps \cup {inputHash} |->
        IF h # inputHash THEN stamps[h]
        ELSE IF inputHash \in DOMAIN stamps
             THEN [created_at |-> stamps[h].created_at, updated_at |-> now, used_at |-> now]
             ELSE [created_at |-> now, updated_at |-> now, used_at |-> now]]

\* the timestamp columns after UPDATE embedding_cache SET used_at = NOW()
\* WHERE id = ANY(ids): used_at, and updated_at by the BEFORE UPDATE trigger
updateUsageTimestamps(tbl, stamps, ids, now) ==
    [h \in DOMAIN stamps |->
        IF HasRow(tbl, h) /\ RowOf(tbl, h).id \in ids
        THEN [created_at |-> stamps[h].created_at, updated_at |-> now, used_at |-> now]
        ELSE stamps[h]]

\* the miss items of handler h, in batch order
RaceMisses(h) == getUncachedItems(hItems[h])

\* the row the statement in progress of handler h writes
RaceTarget(h) == RaceMisses(h)[hK[h]].Hash

InitRace ==
    /\ sTable = {}
    /\ sStamps = <<>>
    /\ sClock = 0
    /\ hPc = [h \in Handlers |-> "idle"]
    /\ hReq = [h \in Handlers |-> NoRequest]
    /\ hItems = [h \in Handlers |-> <<>>]
    /\ hAi = [h \in Handlers |-> <<>>]
    /\ hK = [h \in Handlers |-> 0]
    /\ hNow = [h \in Handlers |-> 0]
    /\ hResp = [h \in Handlers |-> NoResp]
    /\ uPending = {}
    /\ uPc = "idle"
    /\ uNow = 0
    /\ uBatch = {}
    /\ hAbsent = [h \in Handlers |-> FALSE]
    /\ hCalled = [h \in Handlers |-> FALSE]
    /\ hWrote = [h \in Handlers |-> 0]
    /\ hOverlapped = [h \in Handlers |-> FALSE]
    /\ sLastUpsert = <<>>

\* time passes
ClockTick ==
    /\ sClock < MaxClock
    /\ sClock' = sClock + 1
    /\ UNCHANGED <<sTable, sStamps, hPc, hReq, hItems, hAi, hK, hNow, hResp, uPending, uPc,
                   uNow, uBatch, hAbsent, hCalled, hWrote, hOverlapped, sLastUpsert>>
    /\ UNCHANGED <<reqVars, trkVars, fpVars, dbVars>>

\* handleEmbed takes a (valid) request: processSingleRequest up to the hash,
\* processBatchRequest up to prepareBatchItems
RaceStart(h, r) ==
    /\ hPc[h] = "idle"
    /\ hReq' = [hReq EXCEPT ![h] = r]
    /\ hItems' = [hItems EXCEPT ![h] = prepareBatchItems(InputsOf(r), DefaultModel)]
    /\ hPc' = [hPc EXCEPT ![h] = "lookup"]
    /\ UNCHANGED <<sTable, sStamps, sClock, hAi, hK, hNow, hResp, uPending, uPc, uNow,
                   uBatch, hAbsent, hCalled, hWrote, hOverlapped, sLastUpsert>>
    /\ UNCHANGED <<reqVars, trkVars, fpVars, dbVars>>

\* the lookup of a healthy store and what follows it up to the provider call
RaceLookup(h) ==
    /\ hPc[h] = "lookup"
    /\ hAbsent' = [hAbsent EXCEPT ![h] = ~HasRow(sTable, hItems[h][1].Hash)]
    /\ IF ~isBatchInput(hReq[h])
       THEN LET got == GetCachedEmbedding(sTable, hItems[h][1].Hash, TRUE)
            IN  IF got.err # Nil
                THEN /\ hResp' = [hResp EXCEPT ![h] =
                                     Failure("error", "failed to check cache", NoErr)]
                     /\ hPc' = [hPc EXCEPT ![h] = "done"]
                     /\ UNCHANGED <<hItems, uPending>>
                ELSE IF got.cached # <<>>
                THEN /\ uPending' = uPending \cup {got.cached[1].ID}
                     /\ hItems' = [hItems EXCEPT ![h][1].Cached = got.cached]
                     /\ hResp' = [hResp EXCEPT ![h] =
                                     OkSingle(got.cached[1].EmbeddingVector,
                                              got.cached[1].ModelName, TRUE)]
                     /\ hPc' = [hPc EXCEPT ![h] = "done"]
                ELSE /\ hPc' = [hPc EXCEPT ![h] = "provider"]
                     /\ UNCHANGED <<hItems, hResp, uPending>>
       ELSE LET got == GetBatchCachedEmbeddings(sTable, hItems[h], TRUE)
            IN  IF got.err # Nil
                THEN /\ hResp' = [hResp EXCEPT ![h] =
                                     Failure("error", "failed to check cache", NoErr)]
                     /\ hPc' = [hPc EXCEPT ![h] = "done"]
                     /\ UNCHANGED <<hItems, uPending>>
                ELSE /\ hItems' = [hItems EXCEPT ![h] = got.items]
                     /\ uPending' = uPending \cup Range(HitIds(got.items))
                     /\ IF Len(getUncachedItems(got.items)) > 0
                        THEN /\ hPc' = [hPc EXCEPT ![h] = "provider"]
                             /\ UNCHANGED hResp
                        ELSE /\ hResp' = [hResp EXCEPT ![h] =
                                             BatchResponse(got.items, <<>>, DefaultModel)]
                             /\ hPc' = [hPc EXCEPT ![h] = "done"]
    /\ UNCHANGED <<sTable, sStamps, sClock, hReq, hAi, hK, hNow, uPc, uNow, uBatch,
                   hCalled, hWrote, hOverlapped, sLastUpsert>>
    /\ UNCHANGED <<reqVars, trkVars, fpVars, dbVars>>

\* the provider call returns: an error ends the request, a result starts the
\* write-through
RaceProvider(h, outcome) ==
    /\ hPc[h] = "provider"
    /\ outcome \in RaceOutcomes(Len(RaceMisses(h)))
    /\ hCalled' = [hCalled EXCEPT ![h] = TRUE]
    /\ IF outcome.err
       THEN /\ hResp' = [hResp EXCEPT ![h] =
                            Failure("error", "failed to create embeddings", NoErr)]
            /\ hPc' = [hPc EXCEPT ![h] = "done"]
            /\ UNCHANGED <<hAi, hK>>
       ELSE /\ hAi' = [hAi EXCEPT ![h] = outcome.Data]
            /\ hK' = [hK EXCEPT ![h] = 1]
            /\ hPc' = [hPc EXCEPT ![h] = "begin"]
            /\ UNCHANGED hResp
    /\ UNCHANGED <<sTable, sStamps, sClock, hReq, hItems, hNow, uPending, uPc, uNow, uBatch,
                   hAbsent, hWrote, hOverlapped, sLastUpsert>>
    /\ UNCHANGED <<reqVars, trkVars, fpVars, dbVars>>

\* the write-through reaches its next StoreEmbedding, whose transaction starts
\* now; after the last one the request is answered
RaceStoreBegin(h) ==
    /\ hPc[h] = "begin"
    /\ IF hK[h] > Len(RaceMisses(h)) \/ hK[h] > Len(hAi[h])
       THEN /\ hResp' = [hResp EXCEPT ![h] =
                            IF isBatchInput(hReq[h])
                            THEN BatchResponse(hItems[h], hAi[h], DefaultModel)
                            ELSE OkSingle(hAi[h][1], DefaultModel, FALSE)]
            /\ hPc' = [hPc EXCEPT ![h] = "done"]
            /\ UNCHANGED <<hNow, hOverlapped>>
       ELSE /\ hNow' = [hNow EXCEPT ![h] = sClock]
            /\ hOverlapped' = [hOverlapped EXCEPT ![h] = FALSE]
            /\ hPc' = [hPc EXCEPT ![h] = "apply"]
            /\ UNCHANGED hResp
    /\ UNCHANGED <<sTable, sStamps, sClock, hReq, hItems, hAi, hK, uPending, uPc, uNow,
                   uBatch, hAbsent, hCalled, hWrote, sLastUpsert>>
    /\ UNCHANGED <<reqVars, trkVars, fpVars, dbVars>>

\* the handlers other than h whose statement in progress writes the row of inputHash
OverlappedBy(h, inputHash) ==
    [g \in Handlers |->
        IF g # h /\ hPc[g] = "apply" /\ RaceTarget(g) = inputHash THEN TRUE
        ELSE hOverlapped[g]]

\* the StoreEmbedding in progress takes effect on its row
RaceStoreApply(h) ==
    /\ hPc[h] = "apply"
    /\ LET item == RaceMisses(h)[hK[h]]
       IN  /\ sTable' = StoreEmbedding(sTable, item.Hash, item.Input, DefaultModel,
                                       hAi[h][hK[h]])
           /\ sStamps' = UpsertStamps(sStamps, item.Hash, hNow[h])
           /\ sLastUpsert' = <<[handler    |-> h,
                                 hash       |-> item.Hash,
                                 vector     |-> hAi[h][hK[h]],
                                 prior      |-> IF HasRow(sTable, item.Hash)
                                                THEN <<parseEmbeddingVector(
                                                         RowOf(sTable, item.Hash)
                                                             .embedding_vector).vector>>
                                                ELSE <<>>,
                                 overlapped |-> hOverlapped[h]]>>
           /\ hOverlapped' = OverlappedBy(h, item.Hash)
    /\ hWrote' = [hWrote EXCEPT ![h] = @ + 1]
    /\ hK' = [hK EXCEPT ![h] = @ + 1]
    /\ hNow' = [hNow EXCEPT ![h] = 0]
    /\ hPc' = [hPc EXCEPT ![h] = "begin"]
    /\ UNCHANGED <<sClock, hReq, hItems, hAi, hResp, uPending, uPc, uNow, uBatch,
                   hAbsent, hCalled>>
    /\ UNCHANGED <<reqVars, trkVars, fpVars, dbVars>>

\* handleEmbed has answered and returned
RaceDone(h) ==
    /\ hPc[h] = "done"
    /\ hPc' = [hPc EXCEPT ![h] = "idle"]
    /\ hReq' = [hReq EXCEPT ![h] = NoRequest]
    /\ hItems' = [hItems EXCEPT ![h] = <<>>]
    /\ hAi' = [hAi EXCEPT ![h] = <<>>]
    /\ hK' = [hK EXCEPT ![h] = 0]
    /\ hNow' = [hNow EXCEPT ![h] = 0]
    /\ hResp' = [hResp EXCEPT ![h] = NoResp]
    /\ hAbsent' = [hAbsent EXCEPT ![h] = FALSE]
    /\ hCalled' = [hCalled EXCEPT ![h] = FALSE]
    /\ hWrote' = [hWrote EXCEPT ![h] = 0]
    /\ hOverlapped' = [hOverlapped EXCEPT ![h] = FALSE]
    /\ UNCHANGED <<sTable, sStamps, sClock, uPending, uPc, uNow, uBatch, sLastUpsert>>
    /\ UNCHANGED <<reqVars, trkVars, fpVars, dbVars>>

\* a flush of the tracker reaches updateUsageTimestamps with the pending ids:
\* the transaction of its UPDATE starts now
UsageBegin ==
    /\ uPc = "idle"
    /\ uPending # {}
    /\ uBatch' = uPending
    /\ uPending' = {}
    /\ uNow' = sClock
    /\ uPc' = "apply"
    /\ UNCHANGED <<sTable, sStamps, sClock, hPc, hReq, hItems, hAi, hK, hNow, hResp,
                   hAbsent, hCalled, hWrote, hOverlapped, sLastUpsert>>
    /\ UNCHANGED <<reqVars, trkVars, fpVars, dbVars>>

\* the UPDATE of the flush takes effect on its rows
UsageApply ==
    /\ uPc = "apply"
    /\ sStamps' = updateUsageTimestamps(sTable, sStamps, uBatch, uNow)
    /\ hOverlapped' = [g \in Handlers |->
                          IF /\ hPc[g] = "apply"
                             /\ HasRow(sTable, RaceTarget(g))
                             /\ RowOf(sTable, RaceTarget(g)).id \in uBatch
                          THEN TRUE ELSE hOverlapped[g]]
    /\ uBatch' = {}
    /\ uNow' = 0
    /\ uPc' = "idle"
    /\ UNCHANGED <<sTable, sClock, hPc, hReq, hItems, hAi, hK, hNow, hResp, uPending,
                   hAbsent, hCalled, hWrote, sLastUpsert>>
    /\ UNCHANGED <<reqVars, trkVars, fpVars, dbVars>>

NextRace ==
    \/ ClockTick
    \/ \E h \in Handlers, r \in RaceRequests : RaceStart(h, r)
    \/ \E h \in Handlers : RaceLookup(h)
    \/ \E h \in Handlers, outcome \in RaceOutcomes(1) : RaceProvider(h, outcome)
    \/ \E h \in Handlers : RaceStoreBegin(h)
    \/ \E h \in Handlers : RaceStoreApply(h)
    \/ \E h \in Handlers : RaceDone(h)
    \/ UsageBegin
    \/ UsageApply

(***************************************************************************)
(* The Fingerprinter on its own: GenerateInputHash applied to two inputs.  *)
(***************************************************************************)
\* the characters of the texts fingerprinted
FpAlphabet == {"a", "LF", "|"}

\* the texts fingerprinted
FpTexts == UNION {[1..k -> FpAlphabet] : k \in 0..MaxTextLen}

\* the model names fingerprinted: a request may name any string
FpModels == {<<"m">>, <<"n">>, <<"|", "m">>}

\* the whitespace a text may gain at a line edge
FpWhitespace == {" ", "TAB", "LF", "CR"}

\* the ways to write a line ending: "\n", "\r", "\r\n"
LineEndings == {<<"LF">>, <<"CR">>, <<"CR", "LF">>}

\* t with the tokens ins after its first i tokens
InsertAt(t, i, ins) == SubSeq(t, 1, i) \o ins \o SubSeq(t, i + 1, Len(t))

\* the place after the first i tokens of t is the start or end of the text or
\* of one of its lines
AtLineEdge(t, i) ==
    IF i = 0 \/ i = Len(t) THEN TRUE
    ELSE t[i] \in {"LF", "CR"} \/ t[i + 1] \in {"LF", "CR"}

InitFp ==
    /\ fpA = [text |-> <<>>, model |-> DefaultModel]
    /\ fpB = [text |-> <<>>, model |-> DefaultModel]
    /\ fpHow = "none"

\* a text and a model are taken, once
FingerprintFirst(t, m) ==
    /\ InitFp
    /\ fpA' = [text |-> t, model |-> m]
    /\ fpB' = fpA'
    /\ fpHow' = "none"
    /\ UNCHANGED <<reqVars, trkVars, raceVars, dbVars>>

\* the second text gains a whitespace character at the start or end of the
\* text or of a line: leading or trailing whitespace, indentation, a blank line
InsertWhitespace(i, tok) ==
    /\ fpHow \in {"none", "edits"}
    /\ Len(fpB.text) <= MaxTextLen
    /\ i <= Len(fpB.text)
    /\ AtLineEdge(fpB.text, i)
    /\ fpB' = [fpB EXCEPT !.text = InsertAt(fpB.text, i, <<tok>>)]
    /\ fpHow' = "edits"
    /\ UNCHANGED fpA
    /\ UNCHANGED <<reqVars, trkVars, raceVars, dbVars>>

\* a line ending of the second text is written in another style
ChangeLineEnding(i, ending) ==
    /\ fpHow \in {"none", "edits"}
    /\ Len(fpB.text) <= MaxTextLen
    /\ i \in 1..Len(fpB.text)
    /\ fpB.text[i] \in {"LF", "CR"}
    /\ fpB' = [fpB EXCEPT !.text = InsertAt(SubSeq(fpB.text, 1, i - 1) \o
                                             SubSeq(fpB.text, i + 1, Len(fpB.text)),
                                             i - 1, ending)]
    /\ fpHow' = "edits"
    /\ UNCHANGED fpA
    /\ UNCHANGED <<reqVars, trkVars, raceVars, dbVars>>

\* the same text is fingerprinted under another model
OtherModelSameText(m) ==
    /\ fpHow = "none"
    /\ m # fpA.model
    /\ fpB' = [fpB EXCEPT !.model = m]
    /\ fpHow' = "model"
    /\ UNCHANGED fpA
    /\ UNCHANGED <<reqVars, trkVars, raceVars, dbVars>>

\* any text is fingerprinted under any model
FingerprintSecond(t, m) ==
    /\ fpHow = "none"
    /\ fpB' = [text |-> t, model |-> m]
    /\ fpHow' = "free"
    /\ UNCHANGED fpA
    /\ UNCHANGED <<reqVars, trkVars, raceVars, dbVars>>

\* the characters of the raw texts normalized twice: a letter, whitespace, a
\* line ending, a control character, a control character that is whitespace
FpRawAlphabet == {"a", " ", "TAB", "CR", "NUL", "VT"}

\* the raw texts normalized twice
FpRawTexts == UNION {[1..k -> FpRawAlphabet] : k \in 0..MaxTextLen}

\* texts at the truncation limit of normalizeInput: one character short of the
\* limit, then a letter (the limit is met), two letters, or a space and a letter
\* (the limit is passed by one character)
FpLongTexts ==
    {[i \in 1..(MaxHashInputLen - 1) |-> "a"] \o rest :
        rest \in {<<"a">>, <<"a", "b">>, <<" ", "b">>}}

\* a text is fingerprinted, and then the text normalizeInput made of it, under
\* the same model
FingerprintNormalized ==
    /\ InitFp
    /\ \E t \in FpRawTexts \cup FpLongTexts, m \in FpModels :
           /\ fpA' = [text |-> t, model |-> m]
           /\ fpB' = [text |-> normalizeInput(t), model |-> m]
    /\ fpHow' = "normalized"
    /\ UNCHANGED <<reqVars, trkVars, raceVars, dbVars>>

NextFp ==
    \/ \E t \in FpTexts, m \in FpModels : FingerprintFirst(t, m)
    \/ FingerprintNormalized
    \/ \E i \in 0..MaxTextLen, tok \in FpWhitespace : InsertWhitespace(i, tok)
    \/ \E i \in 1..MaxTextLen, ending \in LineEndings : ChangeLineEnding(i, ending)
    \/ \E m \in FpModels : OtherModelSameText(m)
    \/ \E t \in FpTexts, m \in FpModels : FingerprintSecond(t, m)

(***************************************************************************)
(* The Database called directly: StoreEmbedding, GetCachedEmbedding,       *)
(* GetBatchCachedEmbeddings and the statistics, one call at a time.        *)
(***************************************************************************)
\* the float64 values stored: 1, -1.5, -6.4e-05, 1.5e+06 and -0
DbFloats ==
    <<Float(FALSE, <<1>>, 1), Float(TRUE, <<1, 5>>, 1), Float(TRUE, <<6, 4>>, -4),
      Float(FALSE, <<1, 5>>, 7), Float(TRUE, <<>>, 0)>>

\* the vectors stored: the empty one, and MaxDim values that follow one
\* another in DbFloats, from any of them on
DbVectors ==
    {[i \in 1..k |-> DbFloats[((first + i - 2) % Len(DbFloats)) + 1]] :
        first \in 1..Len(DbFloats), k \in {0, MaxDim}}

\* the arguments of StoreEmbedding: "a" with any vector, " a", which has the
\* fingerprint of "a", and "c" for another model
DbStores ==
    {[text |-> <<"a">>, model |-> DefaultModel, vector |-> v] : v \in DbVectors} \cup
    {[text |-> <<" ", "a">>, model |-> DefaultModel, vector |-> v] : v \in Vectors} \cup
    {[text |-> <<"c">>, model |-> OtherModel, vector |-> v] : v \in Vectors}

\* the fingerprints looked up
DbHashes == {GenerateInputHash(<<"a">>, DefaultModel), GenerateInputHash(<<"c">>, OtherModel)}

\* the fingerprint lists of the batch lookups: the two fingerprints, in either
\* order
DbBatches == {hs \in [1..2 -> DbHashes] : hs[1] # hs[2]}

\* a call and its result: the vectors found, one pointer per fingerprint asked
DbOp(op, hash, text, dbUp, err, found, stats) ==
    [op |-> op, hash |-> hash, text |-> text, dbUp |-> dbUp, err |-> err, found |-> found,
     stats |-> stats]

InitDb ==
    /\ dTable = {}
    /\ dStamps = <<>>
    /\ dClock = 0
    /\ dStored = <<>>
    /\ dOp = DbOp("none", <<>>, <<>>, TRUE, Nil, <<>>, <<>>)

\* time passes
DbClockTick ==
    /\ dClock < MaxClock
    /\ dClock' = dClock + 1
    /\ UNCHANGED <<dTable, dStamps, dStored, dOp>>
    /\ UNCHANGED <<reqVars, trkVars, raceVars, fpVars>>

\* db.StoreEmbedding(ctx, inputHash, inputText, modelName, embeddingVector)
DbStoreEmbedding(call, dbUp) ==
    LET inputHash == GenerateInputHash(call.text, call.model)
    IN  /\ IF dbUp
           THEN /\ dTable' = StoreEmbedding(dTable, inputHash, call.text, call.model,
                                            call.vector)
                /\ dStamps' = UpsertStamps(dStamps, inputHash, dClock)
                /\ dStored' = [h \in DOMAIN dStored \cup {inputHash} |->
                                  IF h = inputHash THEN call.vector ELSE dStored[h]]
           ELSE UNCHANGED <<dTable, dStamps, dStored>>
        /\ dOp' = DbOp("store", inputHash, call.text, dbUp,
                       IF dbUp THEN Nil ELSE "failed to store embedding", <<>>, <<>>)
        /\ UNCHANGED dClock
        /\ UNCHANGED <<reqVars, trkVars, raceVars, fpVars>>

\* db.GetCachedEmbedding(ctx, inputHash)
DbGetCachedEmbedding(inputHash, dbUp) ==
    LET got == GetCachedEmbedding(dTable, inputHash, dbUp)
    IN  /\ dOp' = DbOp("get", inputHash, <<>>, dbUp, got.err,
                       <<[i \in 1..Len(got.cached) |-> got.cached[i].EmbeddingVector]>>, <<>>)
        /\ UNCHANGED <<dTable, dStamps, dClock, dStored>>
        /\ UNCHANGED <<reqVars, trkVars, raceVars, fpVars>>

\* db.GetBatchCachedEmbeddings(ctx, batchItems)
DbGetBatchCachedEmbeddings(hashes, dbUp) ==
    LET items == [i \in 1..Len(hashes) |->
                     [Input |-> <<>>, Hash |-> hashes[i], Index |-> i, Cached |-> <<>>]]
        got   == GetBatchCachedEmbeddings(dTable, items, dbUp)
    IN  /\ dOp' = DbOp("batch", hashes, <<>>, dbUp, got.err,
                       [i \in 1..Len(got.items) |->
                           [j \in 1..Len(got.items[i].Cached) |->
                               got.items[i].Cached[j].EmbeddingVector]], <<>>)
        /\ UNCHANGED <<dTable, dStamps, dClock, dStored>>
        /\ UNCHANGED <<reqVars, trkVars, raceVars, fpVars>>

\* cache.GetStats(ctx)
DbGetStats(dbUp) ==
    LET got == CacheGetStats(dTable, dbUp)
    IN  /\ dOp' = DbOp("stats", <<>>, <<>>, dbUp, got.err, <<>>, got.cache_stats)
        /\ UNCHANGED <<dTable, dStamps, dClock, dStored>>
        /\ UNCHANGED <<reqVars, trkVars, raceVars, fpVars>>

NextDb ==
    \/ DbClockTick
    \/ \E call \in DbStores, dbUp \in BOOLEAN : DbStoreEmbedding(call, dbUp)
    \/ \E inputHash \in DbHashes, dbUp \in BOOLEAN : DbGetCachedEmbedding(inputHash, dbUp)
    \/ \E hashes \in DbBatches, dbUp \in BOOLEAN : DbGetBatchCachedEmbeddings(hashes, dbUp)
    \/ \E dbUp \in BOOLEAN : DbGetStats(dbUp)

(***************************************************************************)
(* Specifications.                                                         *)
(***************************************************************************)
Init == InitReq /\ InitTracker /\ InitRace /\ InitFp /\ InitDb

\* the request path over the store; the tracker is left aside
Spec == Init /\ [][Next]_vars

\* the usage tracker; no request is in flight
SpecTracker == Init /\ [][NextTracker]_vars

\* the Database called directly
SpecDb == Init /\ [][NextDb]_vars

\* the Fingerprinter on its own
SpecFp == Init /\ [][NextFp]_vars

\* the provider client called on its own
SpecClient == Init /\ [][NextClient]_vars

\* the usage tracker with both goroutines scheduled fairly: a goroutine that can
\* take a step takes it, the ticker keeps firing, and a markUsed write returns
\* (updateUsageTimestamps has a timeout of 30 s)
SpecTrackerFair ==
    /\ Init
    /\ [][NextTracker]_vars
    /\ WF_vars(IngestRecv)
    /\ WF_vars(TimerTick)
    /\ \A f \in {"ingest", "timer"} :
           /\ WF_vars(FlushTake(f))
           /\ WF_vars(\E ok \in BOOLEAN : FlushWrite(f, ok))

\* the table and its timestamps under concurrent requests and flushes
SpecRace == Init /\ [][NextRace]_vars

(***************************************************************************)
(* Properties of the request path (specification Spec).                    *)
(***************************************************************************)
\* the fingerprint of the request's i-th input, computed from the request
ReqHash(i) == GenerateInputHash(InputsOf(req)[i], modelName)

\* the vector a lookup reads from the row of fingerprint h
StoredVector(st, h) == parseEmbeddingVector(RowOf(st, h).embedding_vector).vector

\* a batch request has been answered successfully
BatchAnswered == pc = "done" /\ resp.status = "ok" /\ isBatchInput(req)

\* position i is the MissRank(i)-th miss of the batch
MissRank(i) == Cardinality({j \in 1..i : batchItems[j].Cached = <<>>})

\* the positions whose fingerprint the store did not hold at lookup
NotFoundIdx == {i \in 1..Len(InputsOf(req)) : ~HasRow(storeAtLookup, ReqHash(i))}

\* C1: a successful batch response has exactly N vectors; at a position
\* resolved as a hit stands the vector stored under that input's fingerprint,
\* at a position resolved as a miss stands the provider's result vector for
\* that input (miss item k <-> result vector k).
C1_BatchOrdering ==
    BatchAnswered =>
        /\ Len(resp.Embeddings) = Len(InputsOf(req))
        /\ \A i \in 1..Len(InputsOf(req)) :
              IF batchItems[i].Cached # <<>>
              THEN resp.Embeddings[i] = StoredVector(storeAtLookup, ReqHash(i))
              ELSE /\ MissRank(i) <= Len(aiResponse.Embeddings)
                   /\ resp.Embeddings[i] = aiResponse.Embeddings[MissRank(i)]

\* The part of C1 that does not depend on the provider returning one vector
\* per miss text: every vector that exists stands at the right position.
BatchOrderingOfReturnedVectors ==
    BatchAnswered =>
        /\ Len(resp.Embeddings) = Len(InputsOf(req))
        /\ \A i \in 1..Len(InputsOf(req)) :
              IF batchItems[i].Cached # <<>>
              THEN resp.Embeddings[i] = StoredVector(storeAtLookup, ReqHash(i))
              ELSE MissRank(i) <= Len(aiResponse.Embeddings) =>
                       resp.Embeddings[i] = aiResponse.Embeddings[MissRank(i)]

\* C2: in every successful batch response, the i-th hit flag is true exactly
\* when the store held the fingerprint of input i at lookup time.
C2_HitFlags ==
    BatchAnswered =>
        \A i \in 1..Len(InputsOf(req)) :
            resp.CachedItems[i] = HasRow(storeAtLookup, ReqHash(i))

\* C3: once a batch request has looked up, it has made no provider call if
\* every fingerprint was found, else exactly one call, with exactly the texts
\* whose fingerprint was not found, in batch order.
C3_OneCallWithMisses ==
    (isBatchInput(req) /\ lookupDb = "up" /\ pc \in {"provider", "store", "done"}) =>
        clientCalls = IF NotFoundIdx = {} THEN <<>>
                      ELSE <<[k \in 1..Cardinality(NotFoundIdx) |->
                                 InputsOf(req)[Ascending(NotFoundIdx)[k]]]>>

\* C4: a single-item request whose fingerprint the (healthy) store does not
\* hold does not fail with a cache-check error; it goes on to call the provider.
C4_SingleMissCallsProvider ==
    (req.type = "string" /\ lookupDb = "up" /\ ~HasRow(storeAtLookup, ReqHash(1))) =>
        /\ resp.err # "failed to check cache"
        /\ Len(clientCalls) = 1

\* C5: a single-item request that repeats the one just served, when store and
\* provider were healthy for that one and the store is healthy now, is
\* answered cached=true with the same vector and without a provider call.
C5_RepeatIsServedFromCache ==
    (pc = "done" /\ prevSame # <<>> /\ prevSame[1].healthy /\ lookupDb = "up") =>
        /\ resp.status = "ok"
        /\ resp.Cached
        /\ resp.Embedding = prevSame[1].Embedding
        /\ clientCalls = <<>>

\* C6: when every provider attempt failed and the context is not done, an
\* error comes back only after exactly MaxRetries + 1 attempts, and it wraps
\* the last failure together with the attempt count.
C6_RetryCeiling ==
    (aiResponse.err # NoErr /\ ~ctxDone /\ goodAt = 0) =>
        /\ apiCalls = MaxRetries + 1
        /\ lastErr # NoErr
        /\ aiResponse.err = ClientErr("failed to create batch embeddings after attempts",
                                      MaxRetries + 1, lastErr.msg, lastErr.index)

\* the call came back with the error of exhausted retries, no good answer seen
C6_Witness ==
    /\ aiResponse.err.msg = "failed to create batch embeddings after attempts"
    /\ ~ctxDone
    /\ goodAt = 0
    /\ apiCalls = MaxRetries + 1

\* C7: when a retry attempt gets a well-formed answer after earlier failures,
\* the call returns successfully with it and makes no further attempt.
C7_RetryCanSucceed ==
    goodAt > 0 =>
        /\ aiResponse.err = NoErr
        /\ aiResponse.Embeddings # <<>>
        /\ apiCalls = goodAt

(***************************************************************************)
(* Properties of the usage tracker (specification SpecTracker).            *)
(***************************************************************************)
\* the ids passed to a markUsed write so far
FlushedIds == UNION {Range(markUsed[i]) : i \in 1..Len(markUsed)}

\* C8: when Stop has returned, every id accepted before Stop was called has
\* been passed to a markUsed write.
C8_NoLossOnStop ==
    stopPc = "stopped" => acceptedAtStop \subseteq FlushedIds

\* C9: the channel never holds more than its capacity; an id is dropped only
\* when the channel is full; while the channel is open every call has returned
\* with its id accepted or dropped, and the next call can always be made.
C9_TrackUsageNeverBlocks ==
    /\ Len(usageChan) <= ChanCap
    /\ \A d \in dropped : d.len = ChanCap
    /\ ~chanClosed =>
          /\ ~panicked
          /\ Cardinality(accepted) + Cardinality(dropped) = nTracked
          /\ nTracked < MaxTracked => ENABLED TrackUsage

\* a call found the channel full and dropped its id
C9_Witness ==
    /\ ~chanClosed
    /\ Len(usageChan) = ChanCap
    /\ dropped # {}

\* C10: no TrackUsage call, whenever it runs relative to Stop, crashes.
C10_TrackUsageSurvivesStop == ~panicked

\* the ids 1..n in the order TrackUsage was called with them
FirstIds(n) == [i \in 1..n |-> i]

\* C11: when exactly batchSize ids have been enqueued on a running tracker and
\* no timer tick has occurred, at most one markUsed write is issued, it holds
\* all batchSize ids, and it has been issued once the ingest task is idle on
\* the emptied channel.
C11_FullBufferFlushesOnce ==
    (ticks = "none" /\ ~stopClosed /\ nTracked = BatchSize
        /\ Cardinality(accepted) = BatchSize) =>
        /\ Len(markUsed) <= 1
        /\ markUsed # <<>> => markUsed[1] = FirstIds(BatchSize)
        /\ (usageChan = <<>> /\ ingestPc = "select") => markUsed = <<FirstIds(BatchSize)>>

\* batchSize ids were enqueued without a tick and went out in one write
C11_Witness ==
    /\ ticks = "none"
    /\ ~stopClosed
    /\ nTracked = BatchSize
    /\ markUsed = <<FirstIds(BatchSize)>>

\* fewer than batchSize ids were enqueued, then the ticker fired once and the
\* flush of that tick has returned
OneTickAfterFewIds ==
    /\ ticks = "one"
    /\ timerPc = "select"
    /\ ~stopClosed
    /\ nTracked >= 1
    /\ nTracked < BatchSize
    /\ trackedAtTick = nTracked
    /\ Cardinality(accepted) = nTracked

C13_WriteFailureIsSwallowed ==
    (pc = "done" /\ writeFailed) =>
        /\ resp.status = "ok"
        /\ resp.err = Nil
        /\ IF isBatchInput(req)
           THEN /\ resp.Embeddings = BatchResponse(batchItems, aiResponse.Embeddings,
                                                   modelName).Embeddings
                /\ resp.CachedItems = BatchResponse(batchItems, aiResponse.Embeddings,
                                                    modelName).CachedItems
                /\ Len(resp.Embeddings) = Len(InputsOf(req))
           ELSE /\ resp.Embedding = aiResponse.Embeddings[1]
                /\ ~resp.Cached

\* a batch request was answered although one of its writes failed
C13_Witness ==
    /\ pc = "done"
    /\ writeFailed
    /\ resp.status = "ok"
    /\ aiResponse.Embeddings # <<>>

\* the provider call of a batch request has failed and the request is answered
FailedBatch == pc = "done" /\ isBatchInput(req) /\ aiResponse.err # NoErr

\* C14 (as stated): when the provider call for the misses of a batch fails,
\* the request answers an error without any vector, and the request writes or
\* changes no entry: the rows are as at lookup and no entry's id has been
\* handed to the usage tracker, whose flush rewrites that entry's used_at.
C14_FailedBatchChangesNothing ==
    FailedBatch =>
        /\ resp.status = "error"
        /\ resp.Embeddings = <<>>
        /\ store = storeAtLookup
        /\ tracked = <<>>

\* C14 (amended): when the provider call for the misses of a batch fails, the
\* request answers an error without any vector and writes no entry and no
\* vector; the only effect on the store is the usage recording of the hits,
\* handed to the tracker before the provider call.
C14_FailedBatchWritesNoVector ==
    FailedBatch =>
        /\ resp.status = "error"
        /\ resp.err = "failed to create embeddings"
        /\ resp.Embeddings = <<>>
        /\ resp.Embedding = <<>>
        /\ store = storeAtLookup
        /\ tracked = HitIds(batchItems)

\* a batch with a hit and a miss whose provider call failed
C14_Witness ==
    /\ FailedBatch
    /\ tracked # <<>>
    /\ resp.status = "error"

\* C15: when the store lookup fails, the request answers an error and makes
\* no provider call, no store write and no usage recording.
C15_LookupFailureAborts ==
    lookupDb = "down" =>
        /\ pc = "done"
        /\ resp.status = "error"
        /\ resp.err = "failed to check cache"
        /\ clientCalls = <<>>
        /\ apiCalls = 0
        /\ store = storeAtLookup
        /\ tracked = <<>>

\* a batch request whose lookup failed has been answered
C15_Witness ==
    /\ lookupDb = "down"
    /\ isBatchInput(req)
    /\ pc = "done"
    /\ resp.status = "error"

\* the validation constraints, read off the request: input absent, input
\* neither a string nor a list of strings, empty batch, batch of more than
\* 1000 items, an item longer than 10000
ViolatesConstraint(r) ==
    \/ r.type \notin {"string", "array"}
    \/ r.type = "array" /\ r.nonStringAt > 0
    \/ r.type = "array" /\ Len(r.items) = 0
    \/ r.type = "array" /\ Len(r.items) > MaxBatchItems
    \/ r.type = "array" /\ \E i \in 1..Len(r.items) : Len(r.items[i]) > MaxItemLen
    \/ r.type = "string" /\ Len(r.text) > MaxItemLen

\* C16: a request that violates a validation constraint is answered with a
\* validation error (400) at once: no lookup, no provider call, no usage
\* recording, and the step that takes the request leaves the store as it is.
C16_RejectedBeforeAnyIO ==
    /\ [](((pc # "idle") /\ ViolatesConstraint(req)) =>
            /\ pc = "done"
            /\ resp.status \in {"invalid body", "validation error"}
            /\ lookupDb = Nil
            /\ clientCalls = <<>>
            /\ apiCalls = 0
            /\ tracked = <<>>)
    /\ [][(pc = "idle" /\ ViolatesConstraint(req')) => store' = store]_vars

\* a batch of more than 1000 items has been refused
C16_Witness ==
    /\ pc = "done"
    /\ req.type = "array"
    /\ Len(req.items) > MaxBatchItems
    /\ resp.status = "validation error"

\* C20: the provider is asked for the effective model of the request, under
\* which the fingerprint is computed, and every entry the request's
\* write-through wrote carries the model the provider was asked for.
C20_StoredModelIsAskedModel ==
    /\ askedModel # <<>> => askedModel = modelName
    /\ (pc = "done" /\ askedModel # <<>>) =>
           \A r \in store \ storeAtLookup : r.model_name = askedModel

(***************************************************************************)
(* The table under concurrent requests (SpecRace).                         *)
(***************************************************************************)
\* the rows of st with fingerprint h
RowsOf(st, h) == {r \in st : r.input_hash = h}

\* C17: fingerprints are unique in the store, and an upsert of a fingerprint
\* that no other statement wrote while it was in progress (a sequential upsert)
\* leaves exactly one entry for the fingerprint, holding the vector of this
\* call, with an updated_at not earlier than before
C17_UpsertKeepsOneEntry ==
    /\ [](\A r1 \in sTable, r2 \in sTable : r1.input_hash = r2.input_hash => r1 = r2)
    /\ [][\A h \in Handlers :
            (hPc[h] = "apply" /\ hPc'[h] = "begin" /\ ~hOverlapped[h]) =>
                /\ Cardinality(RowsOf(sTable', RaceTarget(h))) = 1
                /\ StoredVector(sTable', RaceTarget(h)) = hAi[h][hK[h]]
                /\ RaceTarget(h) \in DOMAIN sStamps =>
                       sStamps'[RaceTarget(h)].updated_at >= sStamps[RaceTarget(h)].updated_at
         ]_vars

\* C17 witness: a sequential upsert has replaced a different vector, and
\* updated_at has advanced past created_at
C17_Witness ==
    /\ sLastUpsert # <<>>
    /\ sLastUpsert[1].prior # <<>>
    /\ sLastUpsert[1].prior[1] # sLastUpsert[1].vector
    /\ ~sLastUpsert[1].overlapped
    /\ Cardinality(RowsOf(sTable, sLastUpsert[1].hash)) = 1
    /\ StoredVector(sTable, sLastUpsert[1].hash) = sLastUpsert[1].vector
    /\ sStamps[sLastUpsert[1].hash].updated_at > sStamps[sLastUpsert[1].hash].created_at

\* handlers h and g serve requests for the same fingerprint at the same time,
\* and the lookups of both found no entry
BothMissed(h, g) ==
    /\ h # g
    /\ hAbsent[h] /\ hAbsent[g]
    /\ hItems[h][1].Hash = hItems[g][1].Hash

\* C18: when two requests for the same fingerprint run concurrently and both
\* miss, each calls the provider and, given vectors, upserts and succeeds; when
\* both have upserted the store holds one entry for the fingerprint, with the
\* vector of the upsert that executed last
C18_ConcurrentMissesBothUpsert ==
    \A h \in Handlers, g \in Handlers :
        (BothMissed(h, g) /\ hPc[h] = "done") =>
            /\ hCalled[h]
            /\ hAi[h] # <<>> => (hWrote[h] = 1 /\ hResp[h].status = "ok")
            /\ (hPc[g] = "done" /\ hWrote[h] = 1 /\ hWrote[g] = 1) =>
                   /\ Cardinality(RowsOf(sTable, hItems[h][1].Hash)) = 1
                   /\ StoredVector(sTable, hItems[h][1].Hash) = sLastUpsert[1].vector

\* C19: for every entry used_at >= created_at, and used_at never decreases
C19_UsedAtIsMonotone ==
    /\ [](\A h \in DOMAIN sStamps : sStamps[h].used_at >= sStamps[h].created_at)
    /\ [][\A h \in DOMAIN sStamps : sStamps'[h].used_at >= sStamps[h].used_at]_vars

\* C32: a successful batch response holds a vector at every position, none
\* missing and none empty, also when the provider returned fewer vectors than
\* the miss texts it was given
C32_NoUnfilledPosition ==
    BatchAnswered =>
        /\ Len(resp.Embeddings) = Len(InputsOf(req))
        /\ \A i \in 1..Len(resp.Embeddings) : resp.Embeddings[i] # <<>>

(***************************************************************************)
(* The response metadata (Spec).                                           *)
(***************************************************************************)
\* C21: the token usage of a batch response is the usage the provider call of
\* the request reported when an item was a miss, and zero when all were hits
C21_BatchUsageIsTheCallsUsage ==
    (pc = "done" /\ resp.status = "ok" /\ resp.batch) =>
        resp.TokenUsage = IF clientCalls # <<>> THEN aiResponse.TokenUsage ELSE ZeroUsage

\* the effective model of a request: the model it names, else the configured one
EffectiveModel(r) == IF r.Model = <<>> THEN DefaultModel ELSE r.Model

\* the single-text request in progress found no entry in a healthy store
SingleMiss ==
    /\ req.type = "string"
    /\ lookupDb = "up"
    /\ ~HasRow(storeAtLookup, GenerateInputHash(req.text, EffectiveModel(req)))

HitPositions == {i \in 1..Len(batchItems) : batchItems[i].Cached # <<>>}

\* C23: the TrackUsage calls of a request are one per position resolved as a
\* hit, with the id of the entry found for that position, and none for a
\* miss; a single-text hit makes exactly one call
C23_OneTrackUsagePerHit ==
    /\ Len(tracked) = Cardinality(HitPositions)
    /\ \A id \in Range(tracked) \cup {r.id : r \in storeAtLookup} :
           Cardinality({k \in 1..Len(tracked) : tracked[k] = id}) =
           Cardinality({i \in HitPositions :
                           RowOf(storeAtLookup, batchItems[i].Hash).id = id})
    /\ (pc = "done" /\ resp.status = "ok" /\ ~resp.batch /\ resp.Cached) =>
           Len(tracked) = 1

\* a batch with two hits and a miss has been answered
C23_Witness ==
    /\ pc = "done"
    /\ resp.status = "ok"
    /\ resp.batch
    /\ Cardinality(HitPositions) = 2
    /\ Len(tracked) = 2
    /\ HitPositions # 1..Len(batchItems)

(***************************************************************************)
(* The flush (SpecTracker).                                                *)
(***************************************************************************)
\* the number of markUsed writes that carry id
WritesOf(id) ==
    Cardinality({k \in 1..Len(markUsed) : id \in Range(markUsed[k])})

\* C24: a flush takes the whole buffer in one step and leaves it empty, and
\* makes one markUsed write for the batch it took; the ids of a batch whose
\* write failed are in no buffer and no batch in flight afterwards and get no
\* second write, and the write changes nothing of a request
C24_FailedFlushIsDropped ==
    /\ [][\A f \in Flushers :
            (FlusherPc(f) = "flush" /\ FlusherPc(f)' = "write") =>
                (inFlight'[f] = buffer /\ buffer' = <<>>)]_vars
    /\ [][\A f \in Flushers :
            (FlusherPc(f) = "write" /\ FlusherPc(f)' # "write") =>
                /\ markUsed' = Append(markUsed, inFlight[f])
                /\ buffer' = buffer
                /\ UNCHANGED <<reqVars, panicked>>]_vars
    /\ [](\A b \in failedWrites : \A id \in Range(b) :
            /\ id \notin Range(buffer)
            /\ id \notin Range(usageChan)
            /\ \A f \in Flushers : id \notin Range(inFlight[f])
            /\ WritesOf(id) = 1)

\* the first write failed, and a later flush has written since
C24_Witness ==
    /\ Len(markUsed) >= 2
    /\ markUsed[1] \in failedWrites
    /\ markUsed[2] \notin failedWrites

\* C25: while the tracker is not stopped, every id accepted into the channel is
\* eventually passed to a markUsed write, and the flush of a timer tick leaves
\* no id behind in the buffer, whatever the buffer's size
C25_AcceptedIdsAreFlushed ==
    /\ \A id \in 1..MaxTracked : (id \in accepted) ~> (id \in FlushedIds \/ stopClosed)
    /\ [][(timerPc = "flush" /\ timerPc' # "flush") =>
             (buffer' = <<>> /\ inFlight'["timer"] = buffer)]_vars

\* the timer has flushed a batch smaller than batchSize while the tracker runs
C25_Witness ==
    /\ ~stopClosed
    /\ \E k \in 1..Len(markUsed) :
           /\ Len(markUsed[k]) < BatchSize
           /\ Range(markUsed[k]) \subseteq accepted
    /\ timerPc = "select"
    /\ ticks # "none"

(***************************************************************************)
(* The provider client (SpecClient).                                       *)
(***************************************************************************)
\* C26: once the context of the call is done (timeout or cancellation) no
\* retry attempt is started: the next step of the call is its return with the
\* context's error, without a further backoff wait; the call returns an error;
\* and the context stays done for the rest of the call, whatever the attempt
C26_NoRetryAfterDeadline ==
    /\ [][(pc = "provider" /\ ctxDone /\ attempt > 0) =>
             /\ pc' = "done"
             /\ aiResponse' = CtxErr
             /\ apiCalls' = apiCalls
             /\ waited' = waited]_vars
    /\ []((pc \in {"store", "done"} /\ ctxDone) => aiResponse.err # NoErr)
    /\ [][(pc = "provider" /\ pc' = "provider" /\ ctxDone) => ctxDone']_vars

\* the context ended after the first attempt: the call returned although a
\* retry was left
C26_Witness ==
    /\ pc = "done"
    /\ ctxDone
    /\ aiResponse = CtxErr
    /\ attempt = 1
    /\ apiCalls = 1
    /\ LoopContinues(attempt)

\* the direct call in progress has a collection the client refuses
RefusedCall ==
    /\ directCall # <<>>
    /\ directCall[1].kind = "batch"
    /\ Len(directCall[1].inputs) = 0 \/ Len(directCall[1].inputs) > MaxBatchItems

\* C27: a call with an empty collection or one of more than 1000 items
\* returns a caller error without any API call, retry or backoff wait; a
\* single-text call is a batch call with the one-element collection
C27_BadCollectionsAreRefused ==
    /\ RefusedCall =>
           /\ apiCalls = 0
           /\ attempt = 0
           /\ waited = 0
           /\ pc \in {"provider", "done"}
           /\ pc = "done" =>
                  aiResponse.err.msg \in {"input array cannot be empty",
                                          "batch size too large (max 1000 items)"}
    /\ (directCall # <<>> /\ directCall[1].kind = "single" /\ pc = "provider") =>
           (aiInputs = directCall[1].inputs /\ Len(aiInputs) = 1 /\ clientCalls = <<aiInputs>>)

\* a collection of more than 1000 items has been refused
C27_Witness ==
    /\ RefusedCall
    /\ pc = "done"
    /\ Len(directCall[1].inputs) > MaxBatchItems
    /\ aiResponse.err.msg = "batch size too large (max 1000 items)"
    /\ apiCalls = 0

C29_WhitespaceInsensitive ==
    /\ fpHow = "edits" =>
           /\ normalizeInput(fpA.text) = normalizeInput(fpB.text)
           /\ GenerateInputHash(fpA.text, fpA.model) = GenerateInputHash(fpB.text, fpB.model)
    /\ fpHow = "model" =>
           GenerateInputHash(fpA.text, fpA.model) # GenerateInputHash(fpB.text, fpB.model)

\* two lines, the second written with "\r" and indented, against "a\na"
C29_Witness ==
    /\ fpHow = "edits"
    /\ fpA.text = <<"a", "LF", "a">>
    /\ fpB.text = <<"a", "CR", " ", "a">>
    /\ normalizeInput(fpB.text) = <<"a", " ", "a">>

\* C30: two distinct pairs (normalized text, model name) never give the same
\* string to hash
C30_PreHashIsUnambiguous ==
    (/\ fpHow = "free"
     /\ <<normalizeInput(fpA.text), fpA.model>> # <<normalizeInput(fpB.text), fpB.model>>) =>
        GenerateInputHash(fpA.text, fpA.model) # GenerateInputHash(fpB.text, fpB.model)

(***************************************************************************)
(* The Database (SpecDb).                                                  *)
(***************************************************************************)
\* two float64 values are the same number: the same sign and digits, or both
\* zero (0 and -0 are one number)
SameNumber(x, y) == x = y \/ (x.d = <<>> /\ y.d = <<>>)

\* two vectors have the same length and the same numbers in the same order
SameVector(v, w) == Len(v) = Len(w) /\ \A i \in 1..Len(v) : SameNumber(v[i], w[i])

\* C31: a vector stored with StoreEmbedding and read back by its fingerprint,
\* by the point lookup or by the batch lookup, has the length it was stored
\* with and the same numbers in the same order
C31_StoredVectorReadsBack ==
    /\ (dOp.op = "get" /\ dOp.err = Nil) =>
           \A j \in 1..Len(dOp.found[1]) : SameVector(dOp.found[1][j], dStored[dOp.hash])
    /\ (dOp.op = "batch" /\ dOp.err = Nil) =>
           \A i \in 1..Len(dOp.hash) :
               /\ HasRow(dTable, dOp.hash[i]) => Len(dOp.found[i]) = 1
               /\ \A j \in 1..Len(dOp.found[i]) :
                      SameVector(dOp.found[i][j], dStored[dOp.hash[i]])

\* -6.4e-05 and 1.5e+06, written with an exponent by fmt.Sprint and without
\* by the column, are read back
C31_Witness ==
    /\ dOp.op = "get"
    /\ dOp.err = Nil
    /\ dOp.found = <<<<(<<Float(TRUE, <<6, 4>>, -4), Float(FALSE, <<1, 5>>, 7)>>)>>>>
    /\ RowOf(dTable, dOp.hash).embedding_vector =
           <<"[", "-", "0", ".", "0", "0", "0", "0", "6", "4", ",", " ",
             "1", "5", "0", "0", "0", "0", "0", "]">>

(***************************************************************************)
(* The ids in the tracker (SpecTracker).                                   *)
(***************************************************************************)
\* how many times id stands in the sequence s
CountIn(s, id) == Cardinality({i \in 1..Len(s) : s[i] = id})

RECURSIVE CountInAll(_, _)
\* how many times id stands in the sequences of batches
CountInAll(batches, id) ==
    IF batches = <<>> THEN 0
    ELSE CountIn(Head(batches), id) + CountInAll(Tail(batches), id)

\* the places that hold id: the channel, the buffer, the batch a flush has
\* taken and not yet written, the batches passed to markUsed
PlacesOf(id) ==
    CountIn(usageChan, id) + CountIn(buffer, id)
    + CountIn(inFlight["ingest"], id) + CountIn(inFlight["timer"], id)
    + CountIn(inFlight["stop"], id)
    + CountInAll(markUsed, id)

C34_BufferWithinBatchSize ==
    /\ Len(buffer) <= BatchSize
    /\ \A f \in Flushers : Len(inFlight[f]) <= BatchSize
    /\ \A i \in 1..Len(markUsed) : Len(markUsed[i]) <= BatchSize

\* the ingest task waits for the write of a full batch while the channel
\* holds the next id
C34_Witness ==
    /\ ingestPc = "write"
    /\ Len(inFlight["ingest"]) = BatchSize
    /\ usageChan # <<>>

(***************************************************************************)
(* The upsert and the statistics (SpecDb).                                 *)
(***************************************************************************)
\* the step is a successful StoreEmbedding on a fingerprint the table holds
UpsertCollides ==
    /\ dOp'.op = "store"
    /\ dOp'.err = Nil
    /\ HasRow(dTable, dOp'.hash)

\* C35: an upsert on a fingerprint the table holds leaves the id, created_at,
\* input_text, input_length and model_name of that row as they were, and leaves
\* every other row and the number of rows as they were
C35_UpsertCollisionFrame ==
    [][UpsertCollides =>
          LET h   == dOp'.hash
              old == RowOf(dTable, h)
              new == RowOf(dTable', h)
          IN  /\ new = [old EXCEPT !.embedding_vector = new.embedding_vector]
              /\ dStamps'[h].created_at = dStamps[h].created_at
              /\ dStamps'[h].updated_at >= dStamps[h].updated_at
              /\ dStamps'[h].used_at >= dStamps[h].used_at
              /\ Cardinality(dTable') = Cardinality(dTable)
              /\ \A r \in dTable : r.input_hash # h =>
                     /\ r \in dTable'
                     /\ dStamps'[r.input_hash] = dStamps[r.input_hash]]_vars

\* " a" was stored first; the upsert of "a", later, has changed the vector and
\* the two timestamps, beside another row
C35_Witness ==
    /\ dOp.op = "store"
    /\ dOp.err = Nil
    /\ dOp.text = <<"a">>
    /\ RowOf(dTable, dOp.hash).input_text = <<" ", "a">>
    /\ StoredVector(dTable, dOp.hash) = dStored[dOp.hash]
    /\ dStamps[dOp.hash].created_at < dStamps[dOp.hash].updated_at
    /\ Cardinality(dTable) = 2

\* C37: the statistics succeed in every state of the store the database
\* answers in, the empty store included, where they report no entry and no
\* model
C37_StatsAlwaysSucceed ==
    (dOp.op = "stats" /\ dOp.dbUp) =>
        /\ dOp.err = Nil
        /\ Len(dOp.stats) = 1
        /\ dOp.stats[1].total_entries = Cardinality(dTable)
        /\ dOp.stats[1].unique_models = Cardinality({r.model_name : r \in dTable})

====
